---------------------------- MODULE Spec2Model ----------------------------
(***************************************************************************)
(* A model of the retrieval and compliance core of auslex:                 *)
(*   - VectorSearchEngine (src/api/vector_search_engine.py) over the       *)
(*     Pinecone index, the embedding provider and the TF-IDF index of      *)
(*     AustralianLegalCorpus (src/api/legal_corpus.py);                    *)
(*   - LegalComplianceValidator / LegalResponseEnhancer                    *)
(*     (src/api/legal_compliance.py);                                      *)
(*   - find_specific_provision of both corpus classes.                     *)
(* Scores are integers in units of 1/10000 (0.75 is 7500, 0.01 is 100).    *)
(* Texts are sequences of tokens (words, "." and the paragraph break).     *)
(***************************************************************************)
EXTENDS Integers, Sequences, FiniteSets, TLC

VARIABLES
    \* ---- AustralianLegalCorpus (module-level legal_corpus) ----
    corpus,              \* "uninit" | "full" | "mock": see CorpusInitialize
    \* ---- the Pinecone service (external, outlives the process) ----
    pcExists,            \* the named index exists
    pcVectors,           \* ids of the vectors stored in it (doc_<i>)
    \* ---- VectorSearchEngine fields ----
    openai_client,       \* "None" | "set"
    pinecone_client,     \* "None" | "set"
    index,               \* "None" | "set" (handle to the Pinecone index)
    is_initialized,      \* BOOLEAN
    fallback_vectorizer, \* "None" | "set"
    fallback_matrix,     \* "None" | "set"
    top_k,               \* config.top_k
    \* ---- the search() call in progress / just returned ----
    call,
    \* ---- another process rebuilding the same Pinecone index ----
    rebuild,             \* its position in initialize(force_rebuild=True)
    \* ---- LegalComplianceValidator / LegalResponseEnhancer ----
    vcall,               \* the validate_response / enhance_response calls of
                         \* one request and what they returned
    \* ---- find_specific_provision ----
    lookup,              \* the lookup in progress / just returned
    \* ---- LegalCorpusLite (module-level legal_corpus_lite) ----
    legal_corpus_lite    \* its is_initialized flag

searchVars == <<corpus, pcExists, pcVectors, openai_client, pinecone_client,
                index, is_initialized, fallback_vectorizer, fallback_matrix,
                top_k, call, rebuild>>

complianceVars == <<vcall>>

provisionVars == <<lookup, legal_corpus_lite>>

vars == <<corpus, pcExists, pcVectors, openai_client, pinecone_client,
          index, is_initialized, fallback_vectorizer, fallback_matrix,
          top_k, call, vcall, lookup, legal_corpus_lite, rebuild>>

(***************************************************************************)
(* Bounds and program constants                                            *)
(***************************************************************************)
\* Number of documents of the loaded corpus (rows of corpus_df).
NumDocs == 2

\* VectorSearchConfig.similarity_threshold = 0.75
similarity_threshold == 7500
\* VectorSearchConfig.top_k = 10
DefaultTopK == 10
\* search_provisions: similarities[idx] > 0.01
MinRelevance == 100
\* _apply_hybrid_scoring: vector_weight = 0.7, bm25_weight = 0.3 (tenths)
vector_weight == 7
bm25_weight == 3
\* relevance_score of the single hard-coded provision of _fallback_search
MockRelevance == 5000
\* Optional[float] = None of SearchResult
NoneScore == -1

DocIds == 0 .. (NumDocs - 1)      \* rows of corpus_df of a loaded corpus
VecIds == 0 .. NumDocs            \* ids Pinecone may hold; NumDocs is a
                                  \* vector left by an earlier, larger corpus
EmbVals == {7000, 8000, 9000}     \* cosine similarities Pinecone reports
LexVals == {100, 2000, 3000}      \* TF-IDF cosine similarities (100 is the
                                  \* cutoff itself: not a match)
TopKChoices == {1, 2, DefaultTopK}
Methods == {"hybrid", "vector_only", "bm25_fallback"}
NoFilter == [none |-> TRUE]
Filters == {NoFilter, [jurisdiction |-> "commonwealth"]}

\* metadata "jurisdiction" stored with each vector at population time
DocJurisdiction(i) == IF i % 2 = 0 THEN "commonwealth" ELSE "new_south_wales"

NoCall == [pc |-> "idle"]

\* LegalCorpusLite.__init__
LiteAsConstructed == legal_corpus_lite = [is_initialized |-> FALSE]

\* the other components before any call
OthersIdle == vcall = NoCall /\ lookup = NoCall /\ LiteAsConstructed

(***************************************************************************)
(* SearchResult and helpers                                                *)
(***************************************************************************)
DocId(kind, i) == [kind |-> kind, idx |-> i]

\* String order of document ids ("corpus_i" < "doc_i" < "fallback_i").
IdLess(a, b) == \/ a.kind = b.kind /\ a.idx < b.idx
                \/ a.kind = "corpus" /\ b.kind \in {"doc", "fallback"}
                \/ a.kind = "doc" /\ b.kind = "fallback"

SearchResult(id, score, md, method, emb) ==
    [document_id |-> id, score |-> score, metadata |-> md,
     search_method |-> method, embedding_score |-> emb,
     bm25_score |-> NoneScore, hybrid_score |-> NoneScore]

Raise == [raised |-> TRUE, results |-> <<>>]
Return(rs) == [raised |-> FALSE, results |-> rs]

\* x is ranked before y by a backend that orders by key, best first; the
\* order among equal keys is the backend's own (tieAsc: by ascending id).
Before(x, y, key, tieAsc) ==
    \/ key[x] > key[y]
    \/ key[x] = key[y] /\ (IF tieAsc THEN x < y ELSE x > y)

RECURSIVE OrderSet(_, _, _)
OrderSet(S, key, tieAsc) ==
    IF S = {} THEN <<>>
    ELSE LET best == CHOOSE x \in S :
                        \A y \in S \ {x} : Before(x, y, key, tieAsc)
         IN <<best>> \o OrderSet(S \ {best}, key, tieAsc)

Take(s, k) == SubSeq(s, 1, IF Len(s) < k THEN Len(s) ELSE k)

Reverse(s) == [i \in 1 .. Len(s) |-> s[Len(s) + 1 - i]]

\* the elements of s (indices into key) whose key exceeds floor, in order
KeepAbove(s, key, floor) ==
    LET F[i \in 0 .. Len(s)] ==
            IF i = 0 THEN <<>>
            ELSE IF key[s[i]] > floor THEN Append(F[i - 1], s[i])
            ELSE F[i - 1]
    IN F[Len(s)]

\* Mutant: every match is kept.
KeepAtLeast_All(s, key, floor) == s

\* the elements of s whose key is at least floor, in order
KeepAtLeast(s, key, floor) ==
    LET F[i \in 0 .. Len(s)] ==
            IF i = 0 THEN <<>>
            ELSE IF key[s[i]] >= floor THEN Append(F[i - 1], s[i])
            ELSE F[i - 1]
    IN F[Len(s)]

(***************************************************************************)
(* AustralianLegalCorpus                                                   *)
(***************************************************************************)
\* legal_corpus.vectorizer and legal_corpus.tfidf_matrix are set exactly by
\* _prepare_search_index / _load_from_cache, i.e. in state "full".
CorpusHasIndex(c) == c = "full"

\* len(corpus_df)
CorpusLen(c) == IF c = "full" THEN NumDocs ELSE IF c = "mock" THEN 1 ELSE 0

\* AustralianLegalCorpus.initialize: the dataset (or cache) loads, or the
\* except branch installs the one-row mock frame without a vectorizer.
CorpusInitialize(c, datasetOk) == IF datasetOk THEN "full" ELSE "mock"

\* AustralianLegalCorpus._fallback_search
CorpusFallbackSearch ==
    << [id |-> DocId("fallback", 1), relevance_score |-> MockRelevance,
        metadata |-> [source |-> "Fallback"]] >>

\* similarities.argsort()[-top_k:][::-1]: ascending argsort, the last k,
\* reversed. The order numpy gives equal similarities is not specified.
TopIndices(lex, k, tieAsc) ==
    LET asc == Reverse(OrderSet(DocIds, lex, tieAsc))
        n == Len(asc)
        \* a[-k:] of Python: from n-k (clamped at 0) to the end
        last == SubSeq(asc, (IF n - k < 0 THEN 0 ELSE n - k) + 1, n)
    IN Reverse(last)

\* AustralianLegalCorpus.search_provisions(query, top_k). lexOk = FALSE:
\* vectorizer.transform / cosine_similarity raises.
SearchProvisions(c, lex, k, tieAsc, lexOk) ==
    IF c = "uninit" THEN CorpusFallbackSearch
    ELSE IF ~CorpusHasIndex(c) \/ ~lexOk THEN CorpusFallbackSearch
    ELSE LET top == TopIndices(lex, k, tieAsc)
             kept == KeepAbove(top, lex, MinRelevance)
         IN [n \in 1 .. Len(kept) |->
                [id |-> DocId("corpus", kept[n]),
                 relevance_score |-> lex[kept[n]],
                 metadata |-> [source |-> "corpus"]]]

(***************************************************************************)
(* The Pinecone index and the embedding provider (external collaborators)  *)
(***************************************************************************)
\* index.query(vector, top_k, filter, include_metadata): the k stored vectors
\* most similar to the query among those whose metadata equals the filter,
\* most similar first. emb[i] is the similarity of vector i to the query.
PineconeQuery(vectors, emb, filter_dict, k, tieAsc) ==
    LET cands == {i \in vectors :
                     \/ filter_dict = NoFilter
                     \/ DocJurisdiction(i) = filter_dict.jurisdiction}
    IN Take(OrderSet(cands, emb, tieAsc), k)

(***************************************************************************)
(* VectorSearchEngine                                                      *)
(***************************************************************************)
\* _generate_embeddings([query]): raises when there is no client or the
\* provider call fails (the except clause re-raises).
GenerateEmbeddingsRaises(in) == openai_client = "None" \/ in.failAt = "embed"

\* self.index.query(**search_params) raises
IndexQueryRaises(in) == ~pcExists \/ in.failAt = "query"

\* sort key of _apply_hybrid_scoring: x.hybrid_score or 0
HybridKey(r) == IF r.hybrid_score = NoneScore THEN 0 ELSE r.hybrid_score

\* Mutant: the re-sort by hybrid score is left out.
SortByHybridDesc_NoSort(rs) == rs

\* Mutant: equal hybrid scores are ordered by ascending document id.
RECURSIVE SortByHybridDesc_ThenId(_)
SortByHybridDesc_ThenId(rs) ==
    IF Len(rs) <= 1 THEN rs
    ELSE LET m == CHOOSE i \in 1 .. Len(rs) :
                     \A j \in (1 .. Len(rs)) \ {i} :
                        \/ HybridKey(rs[j]) < HybridKey(rs[i])
                        \/ /\ HybridKey(rs[j]) = HybridKey(rs[i])
                           /\ rs[i].document_id.idx < rs[j].document_id.idx
             rest == [j \in 1 .. (Len(rs) - 1) |->
                         IF j < m THEN rs[j] ELSE rs[j + 1]]
         IN <<rs[m]>> \o SortByHybridDesc_ThenId(rest)

\* list.sort(key=..., reverse=True): stable, equal keys keep their order
RECURSIVE SortByHybridDesc(_)
SortByHybridDesc(rs) ==
    IF Len(rs) <= 1 THEN rs
    ELSE LET m == CHOOSE i \in 1 .. Len(rs) :
                     /\ \A j \in 1 .. Len(rs) : HybridKey(rs[j]) <= HybridKey(rs[i])
                     /\ \A j \in 1 .. (i - 1) : HybridKey(rs[j]) < HybridKey(rs[i])
             rest == [j \in 1 .. (Len(rs) - 1) |->
                         IF j < m THEN rs[j] ELSE rs[j + 1]]
         IN <<rs[m]>> \o SortByHybridDesc(rest)

\* Mutant: the two weights are exchanged.
HybridScore_Swapped(e, b) == (bm25_weight * e + vector_weight * b) \div 10

\* hybrid_score = (vector_weight * embedding_score) + (bm25_weight * bm25_score)
HybridScore(e, b) == (vector_weight * e + bm25_weight * b) \div 10

\* bm25_scores.get(result.document_id, 0.0): rows of fallback_matrix are
\* keyed doc_<row>; a vector with no row scores 0.
Bm25Of(id, lex) == IF id.kind = "doc" /\ id.idx \in DocIds THEN lex[id.idx] ELSE 0

\* _apply_hybrid_scoring(query, vector_results); any exception returns the
\* vector results as they are.
ApplyHybridScoring(in, vector_results) ==
    IF ~in.lexOk \/ fallback_matrix = "None" THEN vector_results
    ELSE LET scored == [n \in 1 .. Len(vector_results) |->
                 LET r == vector_results[n]
                     b == Bm25Of(r.document_id, in.lex)
                     h == HybridScore(r.embedding_score, b)
                 IN [r EXCEPT !.bm25_score = b, !.hybrid_score = h,
                              !.score = h, !.search_method = "hybrid"]]
         IN SortByHybridDesc(scored)

\* filter_dict of _vector_search: only jurisdiction / type / source keys
FilterDict(filters) == filters

\* _vector_search(query, filters, search_method)
VectorSearch(in) ==
    IF GenerateEmbeddingsRaises(in) THEN Raise
    ELSE IF IndexQueryRaises(in) THEN Raise
    ELSE LET matches == PineconeQuery(pcVectors, in.emb, FilterDict(in.filters),
                                      top_k, in.tieAsc)
             kept == KeepAtLeast(matches, in.emb, similarity_threshold)
             results == [n \in 1 .. Len(kept) |->
                 SearchResult(DocId("doc", kept[n]), in.emb[kept[n]],
                              [jurisdiction |-> DocJurisdiction(kept[n])],
                              "vector_only", in.emb[kept[n]])]
         IN IF in.search_method = "hybrid" /\ fallback_vectorizer # "None"
            THEN Return(ApplyHybridScoring(in, results))
            ELSE Return(results)

\* Mutant: a missing lexical index is reported by raising.
FallbackSearch_Raises(in) ==
    IF fallback_vectorizer = "None" \/ fallback_matrix = "None"
    THEN Raise
    ELSE LET corpus_results ==
                 SearchProvisions(corpus, in.lex, top_k, in.tieAsc, in.lexOk)
         IN Return([n \in 1 .. Len(corpus_results) |->
                 SearchResult(corpus_results[n].id,
                              corpus_results[n].relevance_score,
                              corpus_results[n].metadata,
                              "bm25_fallback", NoneScore)])

\* _fallback_search(query): its try/except turns every exception into [].
FallbackSearch(in) ==
    IF fallback_vectorizer = "None" \/ fallback_matrix = "None"
    THEN Return(<<>>)
    ELSE LET corpus_results ==
                 SearchProvisions(corpus, in.lex, top_k, in.tieAsc, in.lexOk)
         IN Return([n \in 1 .. Len(corpus_results) |->
                 SearchResult(corpus_results[n].id,
                              corpus_results[n].relevance_score,
                              corpus_results[n].metadata,
                              "bm25_fallback", NoneScore)])

\* Mutant: the lexical tier is tried first whenever it is available.
SearchOutcome_LexicalFirst(in) ==
    IF ~is_initialized THEN Return(<<>>)
    ELSE IF fallback_vectorizer # "None" /\ fallback_matrix # "None"
         THEN FallbackSearch(in)
         ELSE LET first == IF index # "None" /\ in.search_method # "bm25_fallback"
                           THEN VectorSearch(in)
                           ELSE FallbackSearch(in)
              IN IF first.raised THEN FallbackSearch(in) ELSE first

\* Mutant: a call with a filter goes to the lexical tier.
SearchOutcome_FilterSkipsVector(in) ==
    IF ~is_initialized THEN Return(<<>>)
    ELSE LET first == IF /\ index # "None"
                         /\ in.search_method # "bm25_fallback"
                         /\ in.filters = NoFilter
                      THEN VectorSearch(in)
                      ELSE FallbackSearch(in)
         IN IF first.raised THEN FallbackSearch(in) ELSE first

\* Mutant: search() without its except clause.
SearchOutcome_NoCatch(in) ==
    IF ~is_initialized THEN Return(<<>>)
    ELSE IF index # "None" /\ in.search_method # "bm25_fallback"
         THEN VectorSearch(in)
         ELSE FallbackSearch(in)

\* search(query, filters, search_method)
SearchOutcome(in) ==
    IF ~is_initialized THEN Return(<<>>)
    ELSE LET first == IF index # "None" /\ in.search_method # "bm25_fallback"
                      THEN VectorSearch(in)
                      ELSE FallbackSearch(in)
         IN IF first.raised THEN FallbackSearch(in) ELSE first

(***************************************************************************)
(* Inputs of one search() call: the caller's arguments and what the        *)
(* collaborators answer during the call. Answers that the call cannot      *)
(* consult are fixed, so that each distinct call is enumerated once.       *)
(***************************************************************************)
ZeroEmb == [i \in VecIds |-> 0]
ZeroLex == [i \in DocIds |-> MinRelevance]
EmbChoices == [VecIds -> EmbVals]
LexChoices == [DocIds -> LexVals]

SearchInputs ==
    \* the embedding provider or the index query fails
    [search_method : Methods, filters : Filters, failAt : {"embed", "query"},
     emb : {ZeroEmb}, lex : LexChoices, tieAsc : BOOLEAN, lexOk : {TRUE}]
    \cup
    [search_method : Methods, filters : Filters, failAt : {"embed", "query", "none"},
     emb : {ZeroEmb}, lex : {ZeroLex}, tieAsc : {TRUE}, lexOk : {FALSE}]
    \cup
    \* the caller asks for the lexical tier
    [search_method : {"bm25_fallback"}, filters : Filters, failAt : {"none"},
     emb : {ZeroEmb}, lex : LexChoices, tieAsc : BOOLEAN, lexOk : {TRUE}]
    \cup
    \* vector search without lexical scores
    [search_method : {"vector_only"}, filters : Filters, failAt : {"none"},
     emb : EmbChoices, lex : {ZeroLex}, tieAsc : BOOLEAN, lexOk : {TRUE}]
    \cup
    \* hybrid: lexical scoring works or raises
    [search_method : {"hybrid"}, filters : Filters, failAt : {"none"},
     emb : EmbChoices, lex : LexChoices, tieAsc : BOOLEAN, lexOk : {TRUE}]
    \cup
    [search_method : {"hybrid"}, filters : Filters, failAt : {"none"},
     emb : EmbChoices, lex : {ZeroLex}, tieAsc : BOOLEAN, lexOk : {FALSE}]

(***************************************************************************)
(* Actions of the search engine                                            *)
(***************************************************************************)
\* _populate_vector_index: one batch holds the whole corpus; a batch whose
\* embedding call raises is skipped.
PopulatedVectors(c, vectors, embedOk) ==
    IF CorpusLen(c) = 0 \/ ~embedOk THEN vectors
    ELSE vectors \cup (0 .. (CorpusLen(c) - 1))

\* initialize(force_rebuild). openaiOk / pineconeOk: the client constructors
\* succeed; setupFail: the Pinecone call of _setup_pinecone_index that raises.
Initialize(force_rebuild, openaiOk, pineconeOk, setupFail, embedOk, datasetOk) ==
    /\ call = NoCall
    /\ LET clientsOk == openaiOk /\ pineconeOk
           listed == clientsOk /\ setupFail # "list"
           exists0 == IF listed /\ force_rebuild THEN FALSE ELSE pcExists
           vectors0 == IF listed /\ (force_rebuild \/ ~pcExists) THEN {} ELSE pcVectors
           connected == listed
           populate == listed /\ setupFail = "none"
                       /\ (vectors0 = {} \/ force_rebuild)
           setupOk == listed /\ setupFail = "none"
           \* legal_corpus.initialize() runs in _populate_vector_index or in
           \* _initialize_fallback_only, when the corpus is not initialized
           corpus1 == IF (populate \/ ~setupOk) /\ corpus = "uninit"
                      THEN CorpusInitialize(corpus, datasetOk) ELSE corpus
       IN /\ openai_client' = IF openaiOk THEN "set" ELSE openai_client
          /\ pinecone_client' = IF clientsOk THEN "set" ELSE pinecone_client
          /\ pcExists' = IF listed THEN TRUE ELSE pcExists
          /\ pcVectors' = IF populate
                          THEN PopulatedVectors(corpus1, vectors0, embedOk)
                          ELSE vectors0
          /\ index' = IF connected THEN "set" ELSE index
          /\ corpus' = corpus1
          \* _setup_fallback_search
          /\ fallback_vectorizer' = IF CorpusHasIndex(corpus1) THEN "set"
                                    ELSE fallback_vectorizer
          /\ fallback_matrix' = IF CorpusHasIndex(corpus1) THEN "set"
                                ELSE fallback_matrix
          /\ is_initialized' = TRUE
    /\ UNCHANGED <<top_k, call, vcall, lookup, legal_corpus_lite, rebuild>>

InitializeAny ==
    \E force_rebuild \in BOOLEAN, openaiOk \in BOOLEAN, pineconeOk \in BOOLEAN,
       setupFail \in {"none", "list", "stats"}, embedOk \in BOOLEAN,
       datasetOk \in BOOLEAN :
        Initialize(force_rebuild, openaiOk, pineconeOk, setupFail, embedOk, datasetOk)

\* Mutant: a search whose vector path raised drops the index handle.
Search_DropsIndex ==
    /\ call = NoCall
    /\ \E in \in SearchInputs :
          /\ call' = [pc |-> "returned", in |-> in, out |-> SearchOutcome(in)]
          /\ index' = IF /\ is_initialized /\ index # "None"
                         /\ in.search_method # "bm25_fallback"
                         /\ VectorSearch(in).raised
                      THEN "None" ELSE index
    /\ UNCHANGED <<corpus, pcExists, pcVectors, openai_client, pinecone_client,
                   is_initialized, fallback_vectorizer, fallback_matrix,
                   top_k, vcall, lookup, legal_corpus_lite, rebuild>>

\* one call of search(): the arguments, the collaborators' answers and the
\* outcome are kept until the caller has taken the result
Search ==
    /\ call = NoCall
    /\ \E in \in SearchInputs :
          call' = [pc |-> "returned", in |-> in, out |-> SearchOutcome(in)]
    /\ UNCHANGED <<corpus, pcExists, pcVectors, openai_client, pinecone_client,
                   index, is_initialized, fallback_vectorizer, fallback_matrix,
                   top_k, vcall, lookup, legal_corpus_lite, rebuild>>

SearchReturn ==
    /\ call # NoCall
    /\ call' = NoCall
    /\ UNCHANGED <<corpus, pcExists, pcVectors, openai_client, pinecone_client,
                   index, is_initialized, fallback_vectorizer, fallback_matrix,
                   top_k, vcall, lookup, legal_corpus_lite, rebuild>>

\* VectorSearchEngine.__init__ and the module-level legal_corpus; the
\* Pinecone service may already hold an index from an earlier process.
SearchInit ==
    /\ corpus = "uninit"
    /\ \/ pcExists = FALSE /\ pcVectors = {}
       \/ pcExists = TRUE /\ pcVectors = VecIds
    /\ openai_client = "None"
    /\ pinecone_client = "None"
    /\ index = "None"
    /\ is_initialized = FALSE
    /\ fallback_vectorizer = "None"
    /\ fallback_matrix = "None"
    /\ top_k \in TopKChoices
    /\ call = NoCall
    /\ rebuild = NoCall
    /\ OthersIdle

SearchNext == InitializeAny \/ Search \/ SearchReturn

SpecSearch == SearchInit /\ [][SearchNext]_vars

(***************************************************************************)
(* AdvancedLegalRAG                                                        *)
(***************************************************************************)
\* for result in search_results[:5]
context_limit == 5
\* longest list an engine over a larger corpus returns to the RAG system
MaxRanked == 7

NoInformation ==
    [answer |-> "I couldn't find relevant legal information for your query.",
     confidence |-> "low", sources |-> <<>>, method |-> "fallback"]

\* Mutant: every search result is given to the language model.
AnswerLegalQuery_AllResults(search_results, include_citations, client, llmOk) ==
    IF search_results = <<>> THEN [returned |-> NoInformation, llm |-> <<>>]
    ELSE
    LET top == search_results
        context_documents ==
            [n \in 1 .. Len(top) |->
                [content |-> top[n].document_id,
                 metadata |-> top[n].metadata,
                 relevance_score |-> top[n].score]]
        \* result.metadata.get('citation', 'Unknown citation')
        Citation(r) == IF "citation" \in DOMAIN r.metadata
                       THEN r.metadata.citation ELSE "Unknown citation"
        citations[n \in 0 .. Len(top)] ==
            IF n = 0 THEN <<>>
            ELSE IF \E k \in 1 .. Len(citations[n - 1]) :
                        citations[n - 1][k] = Citation(top[n])
                 THEN citations[n - 1]
                 ELSE Append(citations[n - 1], Citation(top[n]))
        \* _generate_rag_response: self.openai_client.chat of None raises
        \* before any request; every exception gives the apology
        called == client # "None"
        \* _assess_confidence(search_results)
        top_score == search_results[1].score
        result_count == Len(search_results)
        confidence == IF top_score >= 8000 /\ result_count >= 3 THEN "high"
                      ELSE IF top_score >= 6000 /\ result_count >= 2
                           THEN "medium" ELSE "low"
    IN [returned |->
            [answer |-> IF called /\ llmOk THEN "completion"
                        ELSE "I apologize, but I encountered an error",
             confidence |-> confidence,
             sources |-> IF include_citations THEN citations[Len(top)]
                         ELSE <<>>,
             method |-> search_results[1].search_method,
             documents_used |-> Len(context_documents)],
        llm |-> IF called THEN <<context_documents>> ELSE <<>>]

\* answer_legal_query(query, filters, include_citations), given what
\* search_engine.search(query, filters) returned. client is
\* self.openai_client; llmOk: chat.completions.create returns a completion.
\* returned is the dict handed back, llm the context_documents of each call
\* of the language model. A passage is known by its document id.
AnswerLegalQuery(search_results, include_citations, client, llmOk) ==
    IF search_results = <<>> THEN [returned |-> NoInformation, llm |-> <<>>]
    ELSE
    LET top == Take(search_results, context_limit)
        context_documents ==
            [n \in 1 .. Len(top) |->
                [content |-> top[n].document_id,
                 metadata |-> top[n].metadata,
                 relevance_score |-> top[n].score]]
        \* result.metadata.get('citation', 'Unknown citation')
        Citation(r) == IF "citation" \in DOMAIN r.metadata
                       THEN r.metadata.citation ELSE "Unknown citation"
        citations[n \in 0 .. Len(top)] ==
            IF n = 0 THEN <<>>
            ELSE IF \E k \in 1 .. Len(citations[n - 1]) :
                        citations[n - 1][k] = Citation(top[n])
                 THEN citations[n - 1]
                 ELSE Append(citations[n - 1], Citation(top[n]))
        \* _generate_rag_response: self.openai_client.chat of None raises
        \* before any request; every exception gives the apology
        called == client # "None"
        \* _assess_confidence(search_results)
        top_score == search_results[1].score
        result_count == Len(search_results)
        confidence == IF top_score >= 8000 /\ result_count >= 3 THEN "high"
                      ELSE IF top_score >= 6000 /\ result_count >= 2
                           THEN "medium" ELSE "low"
    IN [returned |->
            [answer |-> IF called /\ llmOk THEN "completion"
                        ELSE "I apologize, but I encountered an error",
             confidence |-> confidence,
             sources |-> IF include_citations THEN citations[Len(top)]
                         ELSE <<>>,
             method |-> search_results[1].search_method,
             documents_used |-> Len(context_documents)],
        llm |-> IF called THEN <<context_documents>> ELSE <<>>]

\* answer_legal_question(query, filters): the RAG system over this engine.
\* search() is called with its default search_method, hybrid, and
\* include_citations is left at its default, True. The RAG system holds the
\* client the engine had when the system was constructed.
AnswerLegalQuestion ==
    /\ call = NoCall
    /\ \E in \in {i \in SearchInputs : i.search_method = "hybrid"} :
          LET search_results == SearchOutcome(in).results
          IN \E client \in {"None", openai_client} :
             \E llmOk \in IF client = "None" THEN {FALSE} ELSE BOOLEAN :
                LET out == AnswerLegalQuery(search_results, TRUE, client, llmOk)
                IN call' = [pc |-> "answered",
                            search_results |-> search_results,
                            returned |-> out.returned, llm |-> out.llm]
    /\ UNCHANGED <<corpus, pcExists, pcVectors, openai_client, pinecone_client,
                   index, is_initialized, fallback_vectorizer, fallback_matrix,
                   top_k, vcall, lookup, legal_corpus_lite, rebuild>>

\* AdvancedLegalRAG(search_engine).answer_legal_query over an engine with a
\* corpus of more than NumDocs documents: search() returns a ranked list of
\* up to MaxRanked results, each citing one of two Acts.
AnswerOverEngine ==
    /\ call = NoCall
    /\ \E len \in 0 .. MaxRanked,
          best \in {e \in EmbVals : e - MaxRanked >= similarity_threshold},
          include_citations \in BOOLEAN, client \in {"None", "set"},
          llmOk \in BOOLEAN :
          LET search_results ==
                  [n \in 1 .. len |->
                      SearchResult(DocId("doc", n - 1), best - n,
                                   [citation |-> DocJurisdiction(n),
                                    jurisdiction |-> DocJurisdiction(n)],
                                   "vector_only", best - n)]
              out == AnswerLegalQuery(search_results, include_citations,
                                      client, llmOk)
          IN call' = [pc |-> "answered", search_results |-> search_results,
                      returned |-> out.returned, llm |-> out.llm]
    /\ UNCHANGED <<corpus, pcExists, pcVectors, openai_client, pinecone_client,
                   index, is_initialized, fallback_vectorizer, fallback_matrix,
                   top_k, vcall, lookup, legal_corpus_lite, rebuild>>

RagNext ==
    InitializeAny \/ AnswerLegalQuestion \/ AnswerOverEngine \/ SearchReturn

SpecRag == SearchInit /\ [][RagNext]_vars

(***************************************************************************)
(* Texts sent to the embedding provider                                    *)
(***************************************************************************)
\* the token budget _generate_embeddings passes to _truncate_text (8000 in
\* the source), scaled down; a text is a sequence of characters
MaxTokens == 1

\* Mutant: no text is cut.
TruncateText_Never(text, max_tokens) == text

\* _truncate_text(text, max_tokens)
TruncateText(text, max_tokens) ==
    LET max_chars == max_tokens * 4
    IN IF Len(text) <= max_chars THEN text
       ELSE SubSeq(text, 1, max_chars) \o <<".", ".", ".">>

\* _generate_embeddings(texts): processed_texts, the input of the request
GenerateEmbeddings(texts) ==
    [i \in 1 .. Len(texts) |-> TruncateText(texts[i], MaxTokens)]

\* one batch of _populate_vector_index: the text of a row is its citation, a
\* space and its text; the batch goes to _generate_embeddings as one list.
\* _populate_vector_index runs after the clients and the index handle are set.
PopulateEmbedsBatch ==
    /\ call = NoCall
    /\ openai_client = "set" /\ index = "set"
    /\ \E len \in 1 .. NumDocs :
       \E texts \in [1 .. len ->
                       {<<"c", " ">> \o [i \in 1 .. n |-> "a"] :
                           n \in 0 .. (MaxTokens * 4)}] :
          call' = [pc |-> "embedded", site |-> "corpus", texts |-> texts,
                   sent |-> GenerateEmbeddings(texts)]
    /\ UNCHANGED <<corpus, pcExists, pcVectors, openai_client, pinecone_client,
                   index, is_initialized, fallback_vectorizer, fallback_matrix,
                   top_k, vcall, lookup, legal_corpus_lite, rebuild>>

\* _vector_search: the query goes to _generate_embeddings as a list of one
\* text. search() reaches _vector_search on an initialized engine that has
\* an index handle.
VectorSearchEmbedsQuery ==
    /\ call = NoCall
    /\ is_initialized /\ index # "None"
    /\ \E n \in 0 .. (MaxTokens * 4 + 2) :
       \E query \in [1 .. n -> {"a", "b"}] :
          call' = [pc |-> "embedded", site |-> "query", texts |-> <<query>>,
                   sent |-> GenerateEmbeddings(<<query>>)]
    /\ UNCHANGED <<corpus, pcExists, pcVectors, openai_client, pinecone_client,
                   index, is_initialized, fallback_vectorizer, fallback_matrix,
                   top_k, vcall, lookup, legal_corpus_lite, rebuild>>

EmbedNext ==
    InitializeAny \/ PopulateEmbedsBatch \/ VectorSearchEmbedsQuery \/ SearchReturn

SpecEmbed == SearchInit /\ [][EmbedNext]_vars

(***************************************************************************)
(* A rebuild of the index by another process                               *)
(*                                                                         *)
(* The Pinecone index is named by config.index_name and shared by every    *)
(* process that constructs a VectorSearchEngine. The rebuilding process    *)
(* runs initialize(force_rebuild=True); each of its Pinecone requests is   *)
(* one step, and it moves between the search() calls of this engine. Its   *)
(* corpus is the loaded dataset of NumDocs rows.                           *)
(***************************************************************************)
\* batch_size of _populate_vector_index (100 in the source), scaled down
batch_size == 1

\* list_indexes(): index_exists is a local of _setup_pinecone_index. old
\* remembers what the index held when the rebuild began; the program does not
\* keep it.
RebuildListIndexes ==
    /\ call = NoCall /\ rebuild = NoCall
    /\ rebuild' = [pc |-> "listed", index_exists |-> pcExists,
                 old |-> pcVectors]
    /\ UNCHANGED <<corpus, pcExists, pcVectors, openai_client, pinecone_client,
                   index, is_initialized, fallback_vectorizer, fallback_matrix,
                   top_k, call, vcall, lookup, legal_corpus_lite>>

\* delete_index(index_name), when force_rebuild and index_exists; it raises
\* when the index is gone, and initialize() then ends in fallback-only mode
RebuildDeleteIndex ==
    /\ call = NoCall
    /\ rebuild.pc = "listed" /\ rebuild.index_exists
    /\ IF pcExists
       THEN /\ pcExists' = FALSE
            /\ pcVectors' = {}
            /\ rebuild' = [pc |-> "deleted", old |-> rebuild.old]
       ELSE /\ rebuild' = NoCall
            /\ UNCHANGED <<pcExists, pcVectors>>
    /\ UNCHANGED <<corpus, openai_client, pinecone_client,
                   index, is_initialized, fallback_vectorizer, fallback_matrix,
                   top_k, call, vcall, lookup, legal_corpus_lite>>

\* create_index(...), the wait until it is ready, Index(index_name) and
\* describe_index_stats(); create_index raises when the index exists
RebuildCreateIndex ==
    /\ call = NoCall
    /\ \/ rebuild.pc = "deleted"
       \/ rebuild.pc = "listed" /\ ~rebuild.index_exists
    /\ IF pcExists
       THEN /\ rebuild' = NoCall
            /\ UNCHANGED <<pcExists, pcVectors>>
       ELSE /\ pcExists' = TRUE
            /\ pcVectors' = {}
            /\ rebuild' = [pc |-> "populating", batch_start |-> 0,
                             old |-> rebuild.old]
    /\ UNCHANGED <<corpus, openai_client, pinecone_client,
                   index, is_initialized, fallback_vectorizer, fallback_matrix,
                   top_k, call, vcall, lookup, legal_corpus_lite>>

\* one iteration of the loop of _populate_vector_index: the embeddings of
\* the batch and index.upsert(vectors); a batch that raises is skipped
RebuildUpsertBatch ==
    /\ call = NoCall
    /\ rebuild.pc = "populating" /\ rebuild.batch_start < NumDocs
    /\ \E embedOk \in BOOLEAN :
          LET batch_end == IF rebuild.batch_start + batch_size < NumDocs
                           THEN rebuild.batch_start + batch_size ELSE NumDocs
          IN /\ pcVectors' = IF embedOk /\ pcExists
                             THEN pcVectors \cup (rebuild.batch_start .. (batch_end - 1))
                             ELSE pcVectors
             /\ rebuild' = [rebuild EXCEPT !.batch_start = @ + batch_size]
    /\ UNCHANGED <<corpus, pcExists, openai_client, pinecone_client,
                   index, is_initialized, fallback_vectorizer, fallback_matrix,
                   top_k, call, vcall, lookup, legal_corpus_lite>>

\* the loop is over: _setup_fallback_search and is_initialized = True of the
\* rebuilding process
RebuildFinish ==
    /\ call = NoCall
    /\ rebuild.pc = "populating" /\ rebuild.batch_start >= NumDocs
    /\ rebuild' = NoCall
    /\ UNCHANGED <<corpus, pcExists, pcVectors, openai_client, pinecone_client,
                   index, is_initialized, fallback_vectorizer, fallback_matrix,
                   top_k, call, vcall, lookup, legal_corpus_lite>>

\* get_vector_search_engine initializes this engine once, before the rebuild
\* begins
RebuildNext ==
    \/ (rebuild = NoCall /\ ~is_initialized /\ InitializeAny)
    \/ Search \/ SearchReturn
    \/ RebuildListIndexes \/ RebuildDeleteIndex \/ RebuildCreateIndex
    \/ RebuildUpsertBatch \/ RebuildFinish

SpecRebuild == SearchInit /\ [][RebuildNext]_vars

(***************************************************************************)
(* Claims about search()                                                   *)
(***************************************************************************)
Returned == call.pc = "returned"
Results == call.out.results

\* C1: whatever the query, the filter and the tier, search() returns a list
\* of at most top_k results whose score never increases from one element
\* to the next.
C1_BoundedNonIncreasing ==
    Returned =>
        /\ ~call.out.raised
        /\ Len(Results) <= top_k
        /\ \A i \in 1 .. (Len(Results) - 1) :
              Results[i].score >= Results[i + 1].score

\* a hybrid call cut to top_k whose re-sort put a lower embedding score first
C1_Witness ==
    /\ Returned
    /\ Len(Results) = 2 /\ top_k = 2
    /\ Cardinality(pcVectors) > top_k
    /\ Results[1].search_method = "hybrid"
    /\ Results[1].score > Results[2].score
    /\ Results[1].embedding_score < Results[2].embedding_score

\* the vector path of this call cannot deliver: no index handle, the
\* embedding call raises or the index query raises
VectorPathFails(in) ==
    index = "None" \/ GenerateEmbeddingsRaises(in) \/ IndexQueryRaises(in)

\* the query passes the relevance cutoff for at least one corpus document
LexicallyMatches(in) == \E i \in DocIds : in.lex[i] > MinRelevance

\* C2: when the embedding provider raises and the corpus has a TF-IDF index,
\* search() on an initialized engine does not raise and returns a non-empty
\* list of bm25_fallback results for every query matching a document.
C2_ProviderDownFallsBack ==
    (/\ Returned
     /\ is_initialized
     /\ call.in.failAt = "embed"
     /\ CorpusHasIndex(corpus)
     /\ LexicallyMatches(call.in))
    => /\ ~call.out.raised
       /\ Len(Results) > 0
       /\ \A i \in 1 .. Len(Results) : Results[i].search_method = "bm25_fallback"

\* the vector tier was entered, the provider raised, the lexical tier answered
C2_Witness ==
    /\ Returned
    /\ is_initialized /\ index = "set" /\ openai_client = "set" /\ pcExists
    /\ call.in.search_method = "hybrid"
    /\ call.in.failAt = "embed"
    /\ Len(Results) = 2
    /\ Results[1].search_method = "bm25_fallback"
    /\ Results[1].document_id.kind = "corpus"

\* C3: search() never propagates an exception; when no lexical index is
\* available to the engine and the vector path fails, it returns [].
C3_NeverRaises ==
    Returned =>
        /\ ~call.out.raised
        /\ (/\ fallback_vectorizer = "None" \/ fallback_matrix = "None"
            /\ VectorPathFails(call.in))
           => Results = <<>>

\* an initialized engine without lexical index whose index query raised
C3_Witness ==
    /\ Returned
    /\ is_initialized /\ index = "set" /\ openai_client = "set"
    /\ fallback_vectorizer = "None"
    /\ call.in.search_method # "bm25_fallback"
    /\ call.in.failAt = "query"
    /\ ~call.out.raised
    /\ Results = <<>>

\* C4: every result labelled hybrid has hybrid_score = 0.7 * embedding_score
\* + 0.3 * bm25_score and score = hybrid_score; a document without a row in
\* the lexical matrix has bm25_score 0.
C4_HybridFormula ==
    Returned =>
        \A i \in 1 .. Len(Results) :
            LET r == Results[i] IN
            r.search_method = "hybrid" =>
                /\ 10 * r.hybrid_score = 7 * r.embedding_score + 3 * r.bm25_score
                /\ r.score = r.hybrid_score
                /\ r.bm25_score = (IF r.document_id.idx \in DocIds
                                   THEN call.in.lex[r.document_id.idx] ELSE 0)

\* a hybrid list holding a document with a lexical score and one without
C4_Witness ==
    /\ Returned
    /\ \E i, j \in 1 .. Len(Results) :
          /\ Results[i].search_method = "hybrid"
          /\ Results[i].bm25_score > MinRelevance
          /\ Results[j].search_method = "hybrid"
          /\ Results[j].document_id.idx \notin DocIds
          /\ Results[j].bm25_score = 0

\* the similarities by which the backend of the serving tier ranked
BackendKey(in, r) == IF r.search_method = "bm25_fallback" THEN in.lex ELSE in.emb

\* C10 (as stated): two results of one list with equal score appear in
\* ascending document-id order.
C10_TiesByAscendingId ==
    Returned =>
        \A i, j \in 1 .. Len(Results) :
            (i < j /\ Results[i].score = Results[j].score)
            => IdLess(Results[i].document_id, Results[j].document_id)

\* C10 (amended): two results with equal score keep the relative order in
\* which the vector index (hybrid, vector-only) or the corpus search
\* (lexical fallback) returned them; the document id plays no part.
C10_TiesKeepBackendOrder ==
    Returned =>
        \A i, j \in 1 .. Len(Results) :
            (/\ i < j
             /\ Results[i].score = Results[j].score
             /\ Results[i].document_id.kind # "fallback")
            => Before(Results[i].document_id.idx, Results[j].document_id.idx,
                      BackendKey(call.in, Results[i]), call.in.tieAsc)

\* two hybrid results with the same hybrid score, the larger id first
C10_Witness ==
    /\ Returned
    /\ Len(Results) >= 2
    /\ Results[1].search_method = "hybrid"
    /\ Results[1].score = Results[2].score
    /\ Results[1].bm25_score > MinRelevance
    /\ Results[1].document_id.idx > Results[2].document_id.idx

\* every result of the call carries this search_method
AllLabelled(method) ==
    \A i \in 1 .. Len(Results) : Results[i].search_method = method

C19_ResultsMatchFilter ==
    (Returned /\ call.in.filters # NoFilter) =>
        \A n \in 1 .. Len(Results) :
            /\ "jurisdiction" \in DOMAIN Results[n].metadata
            /\ Results[n].metadata.jurisdiction = call.in.filters.jurisdiction

\* a call with a jurisdiction filter served by the lexical tier: rows of the
\* corpus whatever their jurisdiction, with the corpus' own metadata
C19_LexicalUnfiltered ==
    /\ Returned /\ is_initialized
    /\ call.in.filters = [jurisdiction |-> "commonwealth"]
    /\ index # "None" /\ call.in.failAt = "query"
    /\ Len(Results) >= 2
    /\ AllLabelled("bm25_fallback")
    /\ \A n \in 1 .. Len(Results) : Results[n].metadata = [source |-> "corpus"]
    /\ \E n \in 1 .. Len(Results) :
           DocJurisdiction(Results[n].document_id.idx) = "new_south_wales"

\* C20: when search() returned an empty list, answer_legal_query returns the
\* fixed "couldn't find relevant legal information" answer with no sources
\* and the language model is not called; every passage of a call of the
\* language model is one of the first five entries of a non-empty list of
\* search results.
C20_LlmOnlyWithTopFive ==
    call.pc = "answered" =>
        /\ call.search_results = <<>> =>
              /\ call.returned.answer
                    = "I couldn't find relevant legal information for your query."
              /\ call.returned.sources = <<>>
              /\ call.llm = <<>>
        /\ \A k \in 1 .. Len(call.llm) :
              /\ call.search_results # <<>>
              /\ \A n \in 1 .. Len(call.llm[k]) :
                    \E r \in 1 .. 5 :
                        /\ r <= Len(call.search_results)
                        /\ call.llm[k][n].content
                              = call.search_results[r].document_id

\* an initialized engine with a client finds nothing: the fixed answer,
\* and no call of the language model
C20_Witness ==
    /\ call.pc = "answered"
    /\ is_initialized /\ openai_client = "set" /\ index = "set"
    /\ call.search_results = <<>>
    /\ call.returned.method = "fallback"
    /\ call.llm = <<>>

\* C27: every result of the hybrid or vector-only tier has an embedding_score
\* of at least similarity_threshold, whatever its final score, and every
\* result of the lexical tier has a relevance score above the cutoff 0.01.
C27_ScoresAboveThresholds ==
    Returned =>
        \A n \in 1 .. Len(Results) :
            IF Results[n].search_method \in {"hybrid", "vector_only"}
            THEN Results[n].embedding_score >= similarity_threshold
            ELSE /\ Results[n].search_method = "bm25_fallback"
                 /\ Results[n].score > MinRelevance

\* a hybrid result whose final score is below the threshold its
\* embedding_score passed, while another stored vector was left out
C27_Witness ==
    /\ Returned
    /\ Len(Results) >= 1
    /\ Results[1].search_method = "hybrid"
    /\ Results[1].score < similarity_threshold
    /\ Results[1].embedding_score >= similarity_threshold
    /\ \E i \in pcVectors : call.in.emb[i] < similarity_threshold

\* C28: initialize() leaves is_initialized true; when a client cannot be
\* constructed or the setup of the vector index fails, the engine is left in
\* lexical-only mode (no index handle, so that search() goes to the lexical
\* tier); when the OpenAI client cannot be constructed, openai_client and
\* index stay None.
C28_FailedInitializeIsLexicalOnly ==
    [][\A force_rebuild \in BOOLEAN, openaiOk \in BOOLEAN,
          pineconeOk \in BOOLEAN, setupFail \in {"none", "list", "stats"},
          embedOk \in BOOLEAN, datasetOk \in BOOLEAN :
          Initialize(force_rebuild, openaiOk, pineconeOk, setupFail,
                     embedOk, datasetOk)
          => /\ is_initialized'
             /\ (~openaiOk \/ ~pineconeOk \/ setupFail # "none")
                   => index' = "None"
             /\ (~openaiOk /\ openai_client = "None" /\ index = "None")
                   => (openai_client' = "None" /\ index' = "None")]_vars

\* the index was created and describe_index_stats raised: the engine keeps
\* the handle of the empty index, and a hybrid search for a query that
\* matches documents of the lexical index returns nothing
C28_EmptyIndexServes ==
    /\ Returned /\ is_initialized
    /\ index = "set" /\ pcVectors = {}
    /\ fallback_vectorizer = "set" /\ fallback_matrix = "set"
    /\ call.in.search_method = "hybrid" /\ call.in.failAt = "none"
    /\ call.in.lexOk /\ LexicallyMatches(call.in)
    /\ Results = <<>>

\* C22: a call of search() leaves the index handle, the lexical vectorizer
\* and matrix, is_initialized, the clients, the corpus and the stored
\* vectors as they were, and the same call repeated after it returns the
\* same list.
C22_SearchChangesNothing ==
    /\ [][(call = NoCall /\ call' # NoCall /\ call'.pc = "returned")
             => UNCHANGED <<index, fallback_vectorizer, fallback_matrix,
                            is_initialized, openai_client, pinecone_client,
                            corpus, pcExists, pcVectors, top_k>>]_vars
    /\ [](Returned => \E in \in {call.in} : SearchOutcome(in) = call.out)

\* a search that failed over to the lexical tier has returned and the
\* engine still holds its index handle
C22_Witness ==
    /\ Returned /\ is_initialized
    /\ index = "set" /\ call.in.failAt = "query"
    /\ call.in.search_method = "hybrid"
    /\ Len(Results) >= 1
    /\ AllLabelled("bm25_fallback")

\* C23 as stated: a corpus text over the budget is sent as its first
\* max_tokens * 4 characters and the marker, a corpus text within the budget
\* is sent unchanged, and the query of a search is sent unchanged whatever its
\* length.
C23_QuerySentUnmodified ==
    call.pc = "embedded" =>
        /\ Len(call.sent) = Len(call.texts)
        /\ \A i \in 1 .. Len(call.texts) :
              LET text == call.texts[i]
                  sent == call.sent[i]
              IN IF call.site = "corpus" /\ Len(text) > MaxTokens * 4
                 THEN /\ Len(sent) = MaxTokens * 4 + 3
                      /\ \A k \in 1 .. (MaxTokens * 4) : sent[k] = text[k]
                      /\ \A k \in (MaxTokens * 4 + 1) .. Len(sent) : sent[k] = "."
                 ELSE sent = text

\* C23: every text sent to the embedding provider, a corpus text of the index
\* build and the query of a search alike, is sent unchanged when it is within
\* max_tokens * 4 characters, and otherwise as its first max_tokens * 4
\* characters followed by the marker.
C23_EveryTextTruncated ==
    call.pc = "embedded" =>
        /\ Len(call.sent) = Len(call.texts)
        /\ \A i \in 1 .. Len(call.texts) :
              LET text == call.texts[i]
                  sent == call.sent[i]
              IN IF Len(text) > MaxTokens * 4
                 THEN /\ Len(sent) = MaxTokens * 4 + 3
                      /\ \A k \in 1 .. (MaxTokens * 4) : sent[k] = text[k]
                      /\ \A k \in (MaxTokens * 4 + 1) .. Len(sent) : sent[k] = "."
                 ELSE sent = text

\* a query over the budget has been sent cut, with the marker
C23_LongQueryCut ==
    /\ call.pc = "embedded" /\ call.site = "query"
    /\ Len(call.texts[1]) = MaxTokens * 4 + 2
    /\ call.texts[1][MaxTokens * 4 + 1] = "b"
    /\ Len(call.sent[1]) = MaxTokens * 4 + 3
    /\ call.sent[1][MaxTokens * 4 + 1] = "."

\* C21: a search() that another process's rebuild of the index has not held
\* back, and that the vector index answered, was answered from the whole old
\* index or from the fully populated new one.
C21_NeverPartialIndex ==
    (/\ Returned /\ is_initialized /\ rebuild # NoCall
     /\ call.in.search_method # "bm25_fallback"
     /\ ~VectorPathFails(call.in))
        => pcVectors = rebuild.old \/ pcVectors = DocIds

\* the index query of a search was answered while the rebuild had upserted
\* the first batch only, and the search returned a document of that batch
C21_PartialIndexObserved ==
    /\ Returned /\ is_initialized
    /\ rebuild # NoCall /\ rebuild.pc = "populating"
    /\ rebuild.batch_start = batch_size /\ batch_size < NumDocs
    /\ pcVectors = 0 .. (batch_size - 1)
    /\ call.in.search_method = "vector_only"
    /\ ~VectorPathFails(call.in)
    /\ Len(Results) = batch_size
    /\ AllLabelled("vector_only")

(***************************************************************************)
(* Texts. A text is the sequence of its pieces: words (or the parts of a   *)
(* word that a keyword can match), " ", "." and the paragraph break. The   *)
(* string is the concatenation of the pieces, so Python's `p in s` is the  *)
(* occurrence of p's pieces as a contiguous run of s's pieces.             *)
(***************************************************************************)
\* the two characters "\n\n"
ParagraphBreak == "<nn>"

\* str.lower() on the pieces that have upper-case letters
Lower(p) ==
    CASE p = "SURE" -> "sure"
      [] p = "THING" -> "thing"
      [] p = "None" -> "none"
      [] OTHER -> p

LowerText(t) == [i \in 1 .. Len(t) |-> Lower(t[i])]

\* p in t
Contains(t, p) ==
    \E i \in 1 .. (Len(t) - Len(p) + 1) :
        \A k \in 1 .. Len(p) : t[i + k - 1] = p[k]

\* whitespace for str.split()
IsSpace(p) == p \in {" ", ParagraphBreak}

\* len(t.split())
WordCount(t) ==
    Cardinality({i \in 1 .. Len(t) :
                    ~IsSpace(t[i]) /\ (i = 1 \/ IsSpace(t[i - 1]))})

\* t.split(sep): at least one part, empty parts kept
RECURSIVE SplitOn(_, _)
SplitOn(t, sep) ==
    IF \A i \in 1 .. Len(t) : t[i] # sep THEN <<t>>
    ELSE LET k == CHOOSE i \in 1 .. Len(t) :
                     t[i] = sep /\ \A j \in 1 .. (i - 1) : t[j] # sep
         IN <<SubSeq(t, 1, k - 1)>> \o SplitOn(SubSeq(t, k + 1, Len(t)), sep)

\* sep.join(parts)
RECURSIVE JoinWith(_, _)
JoinWith(parts, sep) ==
    IF Len(parts) = 0 THEN <<>>
    ELSE IF Len(parts) = 1 THEN parts[1]
    ELSE parts[1] \o <<sep>> \o JoinWith(Tail(parts), sep)

\* parts.insert(at, x) for 0 <= at <= len(parts) (at counts from 0)
InsertAt(parts, at, x) ==
    SubSeq(parts, 1, at) \o <<x>> \o SubSeq(parts, at + 1, Len(parts))

\* [x for x in s if x in keep]
RECURSIVE Filtered(_, _)
Filtered(s, keep) ==
    IF s = <<>> THEN <<>>
    ELSE (IF Head(s) \in keep THEN <<Head(s)>> ELSE <<>>)
         \o Filtered(Tail(s), keep)

(***************************************************************************)
(* The texts, queries and metadata a request is made of                    *)
(***************************************************************************)
\* a response text is made of at most MaxParts of the fragments
MaxParts == 2

\* if source_age > 365
StaleAfterDays == 365
\* len(sentence.split()) > 25
LongSentenceWords == 25
\* avg_sentence_length > 20
MaxAvgSentence == 20

\* a URL of the austlii_url pattern; split('.') cuts it at its dots
AustliiUrl == <<"https://www", ".", "austlii", ".", "edu", ".", "au/au/cases">>

LongSentence ==
    [i \in 1 .. (2 * LongSentenceWords + 1) |->
        IF i % 2 = 1 THEN "word" ELSE " "] \o <<".", " ">>

Fragments ==
    << <<"the", " ", "1990", " ", "law", " ", "at", " ">> \o AustliiUrl
           \o <<" ", "applies", ".", " ">>,
       <<"a", " ", "SURE", " ", "THING", ".", " ">>,
       <<"you", " ", "should", " ", "sue", ".", " ">>,
       <<"you", " ", "must", ".", " ", "i", " ", "suggest", ".", " ">>,
       <<ParagraphBreak>>,
       <<"it", " ", "is", " ", "so", ".", ParagraphBreak,
         "it", " ", "may", " ", "vary", ".", " ">>,
       <<"you", " ", "need", " ", "to", ".", " ", "i", " ", "recommend", ".", " ">>,
       <<"a", " ", "vi", "sa", " ", "may", " ", "help", ".", " ">>,
       <<"estoppel", " ", "bars", " ", "it", ".", " ">>,
       \* "was" holds "wa" and "task" holds "tas"
       <<"federal", " ", "wa", "s", " ", "a", " ", "tas", "k", ".", " ">>,
       LongSentence >>

RECURSIVE Concat(_)
Concat(fs) == IF fs = <<>> THEN <<>> ELSE Head(fs) \o Concat(Tail(fs))

\* the fragments numbered in S, in the order of Fragments
Selected(S) ==
    LET F[i \in 0 .. Len(Fragments)] ==
            IF i = 0 THEN <<>>
            ELSE IF i \in S THEN Append(F[i - 1], Fragments[i]) ELSE F[i - 1]
    IN F[Len(Fragments)]

Texts ==
    {Concat(Selected(S)) :
        S \in {T \in SUBSET (1 .. Len(Fragments)) : Cardinality(T) <= MaxParts}}

\* query: a str, or None passed by a caller that has no query
StrQuery(t) == [kind |-> "str", text |-> t]
NoneQuery == [kind |-> "None", text |-> <<>>]
Queries ==
    { StrQuery(<<"what", " ", "is", " ", "the", " ", "law">>),
      StrQuery(<<"what", " ", "should", " ", "i", " ", "do", " ", "about",
                 " ", "my", " ", "divorce">>),
      NoneQuery }

\* f"{query}"
Format(query) == IF query.kind = "None" THEN <<"None">> ELSE query.text

\* the clock: what datetime.now() / datetime.utcnow() read, as a day and
\* the time of that day (tick)
FirstNow == [year |-> 2024, day |-> StaleAfterDays + 35, tick |-> 0]

\* metadata: None, or a dict with "when_scraped": a date and time, or a
\* string that datetime.fromisoformat rejects
NoMetadata ==
    [kind |-> "None", parses |-> FALSE, when_scraped |-> [day |-> 0, tick |-> 0]]
Scraped(day, tick) ==
    [kind |-> "dict", parses |-> TRUE, when_scraped |-> [day |-> day, tick |-> tick]]
Metadatas ==
    { NoMetadata,
      Scraped(0, 0),
      Scraped(FirstNow.day - StaleAfterDays - 1, 1),
      [kind |-> "dict", parses |-> FALSE, when_scraped |-> [day |-> 0, tick |-> 0]] }

(***************************************************************************)
(* LegalComplianceValidator: configuration                                 *)
(***************************************************************************)
\* ComplianceLevel members are Enum members, not strings
Member(v) == [type |-> "ComplianceLevel", value |-> v]
Str(v) == [type |-> "str", value |-> v]
LOW_RISK == Member("low_risk")
MEDIUM_RISK == Member("medium_risk")
HIGH_RISK == Member("high_risk")
PROFESSIONAL_ADVICE_REQUIRED == Member("professional_advice_required")

\* _load_prohibited_phrases
prohibited_phrases ==
    << <<"i", " ", "guarantee">>,
       <<"you", " ", "will", " ", "definitely", " ", "win">>,
       <<"this", " ", "is", " ", "legal", " ", "advice">>,
       <<"you", " ", "should", " ", "sue">>,
       <<"you", " ", "have", " ", "no", " ", "case">>,
       <<"ignore", " ", "the", " ", "law">>,
       <<"this", " ", "will", " ", "work", " ", "in", " ", "court">>,
       <<"100%", " ", "certain">>,
       <<"you", " ", "can't", " ", "lose">>,
       <<"guaranteed", " ", "outcome">>,
       <<"definite", " ", "result">>,
       <<"sure", " ", "thing">>,
       <<"without", " ", "a", " ", "doubt", " ", "in", " ", "court">> >>

\* advice_indicators of _assess_advice_level
advice_indicators ==
    << <<"you", " ", "should">>,
       <<"you", " ", "must">>,
       <<"you", " ", "need", " ", "to">>,
       <<"i", " ", "recommend">>,
       <<"i", " ", "suggest">>,
       <<"the", " ", "best", " ", "approach">>,
       <<"you", " ", "can", " ", "rely", " ", "on">>,
       <<"this", " ", "means", " ", "you">>,
       <<"in", " ", "your", " ", "case">> >>

\* information_indicators of _assess_advice_level
information_indicators ==
    << <<"generally">>,
       <<"typically">>,
       <<"usually">>,
       <<"may">>,
       <<"might">>,
       <<"could">>,
       <<"for", " ", "example">>,
       <<"in", " ", "some", " ", "cases">>,
       <<"this", " ", "information">>,
       <<"educational", " ", "purposes">> >>

\* specific_query_indicators of _assess_advice_level
specific_query_indicators ==
    << <<"what", " ", "should", " ", "i", " ", "do">>,
       <<"my", " ", "situation">>,
       <<"my", " ", "case">>,
       <<"help", " ", "me">> >>

\* complex_terms of _assess_clarity_and_accessibility
complex_terms ==
    << <<"estoppel">>,
       <<"tortfeasor">>,
       <<"chattels">>,
       <<"bailment">>,
       <<"quantum", " ", "meruit">>,
       <<"mandamus">>,
       <<"certiorari">>,
       <<"habeas", " ", "corpus">>,
       <<"res", " ", "judicata">>,
       <<"ultra", " ", "vires">> >>

\* _load_jurisdiction_keywords (a dict: iteration in insertion order)
jurisdiction_keywords ==
    << [jurisdiction |-> "federal", keywords |->
           {<<"commonwealth">>,
            <<"federal">>,
            <<"high", " ", "court", " ", "of", " ", "australia">>,
            <<"federal", " ", "court">>,
            <<"family", " ", "court">>}],
       [jurisdiction |-> "nsw", keywords |->
           {<<"new", " ", "south", " ", "wales">>,
            <<"nsw">>,
            <<"supreme", " ", "court", " ", "of", " ", "nsw">>,
            <<"nswsc">>,
            <<"sydney">>}],
       [jurisdiction |-> "vic", keywords |->
           {<<"victoria">>,
            <<"vic">>,
            <<"supreme", " ", "court", " ", "of", " ", "victoria">>,
            <<"vsc">>,
            <<"melbourne">>}],
       [jurisdiction |-> "qld", keywords |->
           {<<"queensland">>,
            <<"qld">>,
            <<"supreme", " ", "court", " ", "of", " ", "queensland">>,
            <<"qsc">>,
            <<"brisbane">>}],
       [jurisdiction |-> "sa", keywords |->
           {<<"south", " ", "australia">>,
            <<"sa">>,
            <<"supreme", " ", "court", " ", "of", " ", "south", " ", "australia">>,
            <<"sasc">>,
            <<"adelaide">>}],
       [jurisdiction |-> "wa", keywords |->
           {<<"western", " ", "australia">>,
            <<"wa">>,
            <<"supreme", " ", "court", " ", "of", " ", "western", " ", "australia">>,
            <<"wasc">>,
            <<"perth">>}],
       [jurisdiction |-> "tas", keywords |->
           {<<"tasmania">>,
            <<"tas">>,
            <<"supreme", " ", "court", " ", "of", " ", "tasmania">>,
            <<"tassc">>,
            <<"hobart">>}],
       [jurisdiction |-> "nt", keywords |->
           {<<"northern", " ", "territory">>,
            <<"nt">>,
            <<"supreme", " ", "court", " ", "of", " ", "northern", " ", "territory">>,
            <<"ntsc">>,
            <<"darwin">>}],
       [jurisdiction |-> "act", keywords |->
           {<<"australian", " ", "capital", " ", "territory">>,
            <<"act">>,
            <<"supreme", " ", "court", " ", "of", " ", "act">>,
            <<"actsc">>,
            <<"canberra">>}] >>

\* domain_keywords of _classify_legal_domain (a dict: first match wins)
domain_keywords ==
    << [domain |-> "criminal_law", keywords |->
           {<<"criminal">>,
            <<"charge">>,
            <<"offence">>,
            <<"prosecution">>,
            <<"defendant">>,
            <<"guilty">>,
            <<"conviction">>}],
       [domain |-> "family_law", keywords |->
           {<<"divorce">>,
            <<"custody">>,
            <<"child", " ", "support">>,
            <<"property", " ", "settlement">>,
            <<"domestic", " ", "violence">>}],
       [domain |-> "immigration", keywords |->
           {<<"vi", "sa">>,
            <<"migration">>,
            <<"citizenship">>,
            <<"refugee">>,
            <<"deportation">>,
            <<"immigration">>}],
       [domain |-> "employment", keywords |->
           {<<"employment">>,
            <<"workplace">>,
            <<"unfair", " ", "dismissal">>,
            <<"discrimination">>,
            <<"wages">>}],
       [domain |-> "property", keywords |->
           {<<"property">>,
            <<"real", " ", "estate">>,
            <<"lease">>,
            <<"tenant">>,
            <<"landlord">>,
            <<"conveyancing">>}],
       [domain |-> "corporate_law", keywords |->
           {<<"company">>,
            <<"corporation">>,
            <<"director">>,
            <<"shareholder">>,
            <<"asic">>}],
       [domain |-> "tax_law", keywords |->
           {<<"tax">>,
            <<"ato">>,
            <<"gst">>,
            <<"income", " ", "tax">>,
            <<"capital", " ", "gains">>,
            <<"deduction">>}],
       [domain |-> "constitutional", keywords |->
           {<<"constitutional">>,
            <<"human", " ", "rights">>,
            <<"high", " ", "court">>,
            <<"constitution">>}] >>

\* _load_required_disclaimers (content: the opening words of the string)
required_disclaimers ==
    << [content |-> "This information is for educational purposes only ...",
        required_placement |-> "footer", severity |-> MEDIUM_RISK,
        applies_to_domains |-> {"general_legal"}],
       [content |-> "IMPORTANT: Immigration law is complex ...",
        required_placement |-> "header", severity |-> HIGH_RISK,
        applies_to_domains |-> {"immigration"}],
       [content |-> "WARNING: Criminal law matters have serious consequences ...",
        required_placement |-> "header", severity |-> PROFESSIONAL_ADVICE_REQUIRED,
        applies_to_domains |-> {"criminal_law"}],
       [content |-> "Family law matters are highly fact-specific ...",
        required_placement |-> "inline", severity |-> HIGH_RISK,
        applies_to_domains |-> {"family_law"}],
       [content |-> "Tax law is complex and penalties apply ...",
        required_placement |-> "inline", severity |-> HIGH_RISK,
        applies_to_domains |-> {"tax_law"}] >>

(***************************************************************************)
(* LegalComplianceValidator: the six checks                                *)
(***************************************************************************)
ComplianceCheck(check_id, description, risk_level, passed, details, recommendations, timestamp) ==
    [check_id |-> check_id, description |-> description,
     risk_level |-> risk_level, passed |-> passed, details |-> details,
     recommendations |-> recommendations, timestamp |-> timestamp]

\* what asyncio.gather(..., return_exceptions=True) puts in the place of a
\* check that raised
RaisedException(name) == [exception |-> name]

\* isinstance(check, ComplianceCheck)
IsComplianceCheck(c) == "check_id" \in DOMAIN c

\* the elements of a list of phrases that occur in text, in list order
Occurring(phrases, text) ==
    Filtered(phrases,
             {phrases[i] : i \in {j \in 1 .. Len(phrases) :
                                     Contains(text, phrases[j])}})

\* Mutant: the denylist is matched against the text as written.
CheckProhibitedLanguage_CaseSensitive(content, now) ==
    LET violations == Occurring(prohibited_phrases, content)
    IN ComplianceCheck(
           "prohibited_language",
           "Check for prohibited language that could constitute legal advice",
           IF violations # <<>> THEN PROFESSIONAL_ADVICE_REQUIRED ELSE LOW_RISK,
           Len(violations) = 0,
           [found |-> Len(violations), violations |-> violations],
           IF violations # <<>>
           THEN <<"Remove or rephrase prohibited language",
                  "Add appropriate disclaimers">>
           ELSE <<>>,
           now)

\* _check_prohibited_language(content)
CheckProhibitedLanguage(content, now) ==
    LET content_lower == LowerText(content)
        violations == Occurring(prohibited_phrases, content_lower)
    IN ComplianceCheck(
           "prohibited_language",
           "Check for prohibited language that could constitute legal advice",
           IF violations # <<>> THEN PROFESSIONAL_ADVICE_REQUIRED ELSE LOW_RISK,
           Len(violations) = 0,
           [found |-> Len(violations), violations |-> violations],
           IF violations # <<>>
           THEN <<"Remove or rephrase prohibited language",
                  "Add appropriate disclaimers">>
           ELSE <<>>,
           now)

\* _compile_citation_patterns: the names of the eight patterns
citation_types ==
    <<"case_citation", "legislation", "regulation", "austlii_url",
      "federal_register", "nsw_citation", "vic_citation", "qld_citation">>

\* len(pattern.findall(content)): the texts hold citations of the
\* austlii_url shape only
FindallCount(citation_type, content) ==
    IF citation_type = "austlii_url"
    THEN Cardinality({i \in 1 .. (Len(content) - Len(AustliiUrl) + 1) :
                         SubSeq(content, i, i + Len(AustliiUrl) - 1) = AustliiUrl})
    ELSE 0

\* Mutant: no citation is counted as valid.
ValidateCitations_NoneValid(content, now) ==
    LET Sum[i \in 0 .. Len(citation_types)] ==
            IF i = 0 THEN 0
            ELSE Sum[i - 1] + FindallCount(citation_types[i], content)
        total_citations == Sum[Len(citation_types)]
        valid_citations == 0
        \* accuracy_rate >= 0.9, accuracy_rate = 1.0 without citations
        passed == IF total_citations > 0
                  THEN 10 * valid_citations >= 9 * total_citations
                  ELSE TRUE
    IN ComplianceCheck(
           "citation_validation",
           "Validate legal citations for proper format",
           IF passed THEN LOW_RISK ELSE MEDIUM_RISK,
           passed,
           [valid |-> valid_citations, total |-> total_citations],
           IF ~passed
           THEN <<"Verify all citations against AustLII",
                  "Use proper citation format">>
           ELSE <<>>,
           now)

\* _validate_citations(content)
ValidateCitations(content, now) ==
    LET Sum[i \in 0 .. Len(citation_types)] ==
            IF i = 0 THEN 0
            ELSE Sum[i - 1] + FindallCount(citation_types[i], content)
        total_citations == Sum[Len(citation_types)]
        \* every formatted citation is counted as valid
        valid_citations == Sum[Len(citation_types)]
        \* accuracy_rate >= 0.9, accuracy_rate = 1.0 without citations
        passed == IF total_citations > 0
                  THEN 10 * valid_citations >= 9 * total_citations
                  ELSE TRUE
    IN ComplianceCheck(
           "citation_validation",
           "Validate legal citations for proper format",
           IF passed THEN LOW_RISK ELSE MEDIUM_RISK,
           passed,
           [valid |-> valid_citations, total |-> total_citations],
           IF ~passed
           THEN <<"Verify all citations against AustLII",
                  "Use proper citation format">>
           ELSE <<>>,
           now)

\* Mutant: the number of directive phrases is tested first.
AssessAdviceLevel_CountFirst(content, query, now) ==
    IF query.kind = "None" THEN RaisedException("AttributeError")
    ELSE
    LET content_lower == LowerText(content)
        query_lower == LowerText(query.text)
        advice_count == Len(Occurring(advice_indicators, content_lower))
        info_count == Len(Occurring(information_indicators, content_lower))
        specific_query ==
            \E i \in 1 .. Len(specific_query_indicators) :
                Contains(query_lower, specific_query_indicators[i])
        risk_level ==
            IF advice_count > 3 THEN HIGH_RISK
            ELSE IF advice_count > info_count /\ specific_query
            THEN PROFESSIONAL_ADVICE_REQUIRED
            ELSE IF advice_count > 1 THEN MEDIUM_RISK
            ELSE LOW_RISK
        passed == ~(advice_count > info_count /\ specific_query)
                  /\ ~(advice_count > 3)
    IN ComplianceCheck(
           "advice_level_assessment",
           "Assess whether response constitutes legal advice",
           risk_level,
           passed,
           [advice |-> advice_count, information |-> info_count,
            specific_query |-> specific_query],
           IF ~passed
           THEN <<"Rephrase directive language as general information",
                  "Add stronger disclaimers about not providing legal advice",
                  "Direct user to seek professional legal advice">>
           ELSE <<>>,
           now)

\* _assess_advice_level(content, query); query.lower() raises on None
AssessAdviceLevel(content, query, now) ==
    IF query.kind = "None" THEN RaisedException("AttributeError")
    ELSE
    LET content_lower == LowerText(content)
        query_lower == LowerText(query.text)
        advice_count == Len(Occurring(advice_indicators, content_lower))
        info_count == Len(Occurring(information_indicators, content_lower))
        specific_query ==
            \E i \in 1 .. Len(specific_query_indicators) :
                Contains(query_lower, specific_query_indicators[i])
        risk_level ==
            IF advice_count > info_count /\ specific_query
            THEN PROFESSIONAL_ADVICE_REQUIRED
            ELSE IF advice_count > 3 THEN HIGH_RISK
            ELSE IF advice_count > 1 THEN MEDIUM_RISK
            ELSE LOW_RISK
        passed == ~(advice_count > info_count /\ specific_query)
                  /\ ~(advice_count > 3)
    IN ComplianceCheck(
           "advice_level_assessment",
           "Assess whether response constitutes legal advice",
           risk_level,
           passed,
           [advice |-> advice_count, information |-> info_count,
            specific_query |-> specific_query],
           IF ~passed
           THEN <<"Rephrase directive language as general information",
                  "Add stronger disclaimers about not providing legal advice",
                  "Direct user to seek professional legal advice">>
           ELSE <<>>,
           now)

\* _check_jurisdiction_consistency(content)
CheckJurisdictionConsistency(content, now) ==
    LET content_lower == LowerText(content)
        names == [i \in 1 .. Len(jurisdiction_keywords) |->
                     jurisdiction_keywords[i].jurisdiction]
        mentioned_jurisdictions ==
            Filtered(names,
                     {jurisdiction_keywords[i].jurisdiction :
                         i \in {j \in 1 .. Len(jurisdiction_keywords) :
                                   \E k \in jurisdiction_keywords[j].keywords :
                                       Contains(content_lower, k)}})
        states_mentioned ==
            Filtered(mentioned_jurisdictions,
                     {names[i] : i \in 1 .. Len(names)} \ {"federal"})
        conflicts ==
            IF /\ Len(mentioned_jurisdictions) > 2
               /\ Contains(mentioned_jurisdictions, <<"federal">>)
               /\ Len(states_mentioned) > 1
            THEN <<"Federal and multiple state laws mentioned without clear distinction">>
            ELSE <<>>
    IN ComplianceCheck(
           "jurisdiction_consistency",
           "Check for consistent jurisdiction references",
           IF conflicts # <<>> THEN MEDIUM_RISK ELSE LOW_RISK,
           Len(conflicts) = 0,
           [mentioned |-> mentioned_jurisdictions, conflicts |-> conflicts],
           IF conflicts # <<>>
           THEN <<"Clearly distinguish between federal and state laws",
                  "Specify which jurisdiction each piece of information applies to">>
           ELSE <<>>,
           now)

\* the pieces that the year pattern \b(19|20)\d{2}\b matches
IsYear(p) == p \in {"1990"}

\* what re.findall returns for a match of a pattern with one group: the
\* text of the group, here the century
Group1(p) == IF p = "1990" THEN "19" ELSE "20"

\* match.isdigit() and len(match) == 4
IsFourDigits(m) == m \notin {"19", "20"}

\* int(match)
YearValue(m) == IF m = "1990" THEN 1990 ELSE 0

\* Mutant: a started day counts as a whole day.
SourceAge_RoundsUp(metadata, now) ==
    IF metadata.kind = "dict" /\ metadata.parses
    THEN (now.day - metadata.when_scraped.day)
         + (IF now.tick > metadata.when_scraped.tick THEN 1 ELSE 0)
    ELSE 0

\* source_age: (datetime.now() - scraped_date).days, the whole days
\* elapsed; 0 without a "when_scraped" that parses
SourceAge(metadata, now) ==
    IF metadata.kind = "dict" /\ metadata.parses
    THEN (now.day - metadata.when_scraped.day)
         - (IF now.tick < metadata.when_scraped.tick THEN 1 ELSE 0)
    ELSE 0

\* _validate_currency_of_information(content, metadata)
ValidateCurrencyOfInformation(content, metadata, now) ==
    LET current_year == now.year
        years == SelectSeq(content, IsYear)
        matches == [i \in 1 .. Len(years) |-> Group1(years[i])]
        kept == SelectSeq(matches, IsFourDigits)
        mentioned_dates == [i \in 1 .. Len(kept) |-> YearValue(kept[i])]
        old_dates == Filtered(mentioned_dates,
                              {mentioned_dates[i] : i \in
                                  {j \in 1 .. Len(mentioned_dates) :
                                      current_year - mentioned_dates[j] > 10}})
        source_age == SourceAge(metadata, now)
        currency_issues ==
            (IF old_dates # <<>>
             THEN <<[issue |-> "References to dates older than 10 years",
                     value |-> old_dates]>>
             ELSE <<>>)
            \o (IF source_age > StaleAfterDays
                THEN <<[issue |-> "Source information is days old",
                        value |-> <<source_age>>]>>
                ELSE <<>>)
    IN ComplianceCheck(
           "information_currency",
           "Validate currency of legal information",
           IF currency_issues # <<>> THEN MEDIUM_RISK ELSE LOW_RISK,
           Len(currency_issues) = 0,
           currency_issues,
           IF currency_issues # <<>>
           THEN <<"Verify that cited laws and cases are still current",
                  "Add warning about checking current status of laws",
                  "Update information from more recent sources">>
           ELSE <<>>,
           now)

\* _assess_clarity_and_accessibility(content)
AssessClarityAndAccessibility(content, now) ==
    LET sentences == SplitOn(content, ".")
        words == WordCount(content)
        long_sentences ==
            Cardinality({i \in 1 .. Len(sentences) :
                            WordCount(sentences[i]) > LongSentenceWords})
        content_lower == LowerText(content)
        unexplained_jargon ==
            Filtered(complex_terms,
                     {complex_terms[i] : i \in
                         {j \in 1 .. Len(complex_terms) :
                             /\ Contains(content_lower, complex_terms[j])
                             /\ ~Contains(content_lower,
                                          complex_terms[j] \o <<" ", "means">>)
                             /\ ~Contains(content_lower,
                                          complex_terms[j] \o <<" ", "is">>)}})
        accessibility_issues ==
            \* avg_sentence_length = len(words) / len(sentences) > 20
            (IF words > MaxAvgSentence * Len(sentences)
             THEN <<"Average sentence length too long">> ELSE <<>>)
            \* long_sentences > len(sentences) * 0.3
            \o (IF 10 * long_sentences > 3 * Len(sentences)
                THEN <<"Too many long sentences">> ELSE <<>>)
            \o (IF unexplained_jargon # <<>>
                THEN <<"Unexplained legal jargon">> ELSE <<>>)
        passed == Len(accessibility_issues) = 0
    IN ComplianceCheck(
           "clarity_accessibility",
           "Assess readability and accessibility",
           IF passed THEN LOW_RISK ELSE MEDIUM_RISK,
           passed,
           [words |-> words, sentences |-> Len(sentences),
            issues |-> accessibility_issues, jargon |-> unexplained_jargon],
           IF accessibility_issues # <<>>
           THEN <<"Break up long sentences",
                  "Explain legal terms in plain English",
                  "Use simpler language where possible">>
           ELSE <<>>,
           now)

(***************************************************************************)
(* LegalComplianceValidator: aggregation                                   *)
(***************************************************************************)
\* _classify_legal_domain(query, content)
ClassifyLegalDomain(query, content) ==
    LET text == LowerText(Format(query) \o <<" ">> \o content)
        hits == {i \in 1 .. Len(domain_keywords) :
                    \E k \in domain_keywords[i].keywords : Contains(text, k)}
    IN IF hits = {} THEN "general_legal"
       ELSE domain_keywords[CHOOSE i \in hits : \A j \in hits : i <= j].domain

\* risk_levels_order of _get_required_disclaimers
risk_levels_order ==
    <<LOW_RISK, MEDIUM_RISK, HIGH_RISK, PROFESSIONAL_ADVICE_REQUIRED>>

\* risk_levels_order.index(level)
OrderIndex(level) ==
    CHOOSE i \in 1 .. Len(risk_levels_order) : risk_levels_order[i] = level

\* Mutant: a disclaimer is selected for the domains it lists only.
GetRequiredDisclaimers_DomainOnly(domain, risk_level) ==
    LET applicable ==
            {i \in 1 .. Len(required_disclaimers) :
                /\ domain \in required_disclaimers[i].applies_to_domains
                /\ OrderIndex(risk_level)
                       >= OrderIndex(required_disclaimers[i].severity)}
        F[i \in 0 .. Len(required_disclaimers)] ==
            IF i = 0 THEN <<>>
            ELSE IF i \in applicable
                 THEN Append(F[i - 1],
                        [content |-> required_disclaimers[i].content,
                         placement |-> required_disclaimers[i].required_placement,
                         severity |-> required_disclaimers[i].severity.value])
                 ELSE F[i - 1]
    IN F[Len(required_disclaimers)]

\* Mutant: the disclaimers at or above the assessed risk are selected.
GetRequiredDisclaimers_AtOrAbove(domain, risk_level) ==
    LET applicable ==
            {i \in 1 .. Len(required_disclaimers) :
                /\ \/ domain \in required_disclaimers[i].applies_to_domains
                   \/ "general_legal" \in required_disclaimers[i].applies_to_domains
                /\ OrderIndex(risk_level)
                       <= OrderIndex(required_disclaimers[i].severity)}
        F[i \in 0 .. Len(required_disclaimers)] ==
            IF i = 0 THEN <<>>
            ELSE IF i \in applicable
                 THEN Append(F[i - 1],
                        [content |-> required_disclaimers[i].content,
                         placement |-> required_disclaimers[i].required_placement,
                         severity |-> required_disclaimers[i].severity.value])
                 ELSE F[i - 1]
    IN F[Len(required_disclaimers)]

\* _get_required_disclaimers(domain, risk_level)
GetRequiredDisclaimers(domain, risk_level) ==
    LET applicable ==
            {i \in 1 .. Len(required_disclaimers) :
                /\ \/ domain \in required_disclaimers[i].applies_to_domains
                   \/ "general_legal" \in required_disclaimers[i].applies_to_domains
                /\ OrderIndex(risk_level)
                       >= OrderIndex(required_disclaimers[i].severity)}
        F[i \in 0 .. Len(required_disclaimers)] ==
            IF i = 0 THEN <<>>
            ELSE IF i \in applicable
                 THEN Append(F[i - 1],
                        [content |-> required_disclaimers[i].content,
                         placement |-> required_disclaimers[i].required_placement,
                         severity |-> required_disclaimers[i].severity.value])
                 ELSE F[i - 1]
    IN F[Len(required_disclaimers)]

\* Mutant: every failed check costs the default penalty.
RiskPenalty_Flat(value) == 10

\* risk_penalties of _calculate_confidence_score, in hundredths
RiskPenalty(value) ==
    CASE value = "low_risk" -> 5
      [] value = "medium_risk" -> 15
      [] value = "high_risk" -> 25
      [] value = "professional_advice_required" -> 40
      [] OTHER -> 10

\* _calculate_confidence_score(validation_results), in hundredths:
\* round(max(0.0, passed / len - penalties), 2)
CalculateConfidenceScore(checks_performed, warnings) ==
    IF checks_performed = <<>> THEN 0
    ELSE LET n == Len(checks_performed)
             passed_checks ==
                 Cardinality({i \in 1 .. n : checks_performed[i].passed})
             Pen[i \in 0 .. Len(warnings)] ==
                 IF i = 0 THEN 0
                 ELSE Pen[i - 1] + RiskPenalty(warnings[i].risk_level)
             total_penalty == Pen[Len(warnings)]
             \* n times the unrounded score, in hundredths
             scaled == 100 * passed_checks - n * total_penalty
         IN IF scaled <= 0 THEN 0 ELSE (2 * scaled + n) \div (2 * n)

\* Mutant: a medium-risk check lowers a level already raised above medium.
UpdateRiskLevel_NoGuard(max_risk_level, check) ==
    IF check.risk_level.value = "professional_advice_required"
    THEN PROFESSIONAL_ADVICE_REQUIRED
    ELSE IF /\ check.risk_level.value = "high_risk"
            /\ max_risk_level # PROFESSIONAL_ADVICE_REQUIRED
    THEN HIGH_RISK
    ELSE IF check.risk_level.value = "medium_risk"
    THEN MEDIUM_RISK
    ELSE max_risk_level

\* the if / elif chain of validate_response that updates max_risk_level
UpdateRiskLevel(max_risk_level, check) ==
    IF check.risk_level.value = "professional_advice_required"
    THEN PROFESSIONAL_ADVICE_REQUIRED
    ELSE IF /\ check.risk_level.value = "high_risk"
            /\ max_risk_level # PROFESSIONAL_ADVICE_REQUIRED
    THEN HIGH_RISK
    ELSE IF /\ check.risk_level.value = "medium_risk"
            /\ max_risk_level = LOW_RISK
    THEN MEDIUM_RISK
    ELSE max_risk_level

\* asyncio.gather(*aws, return_exceptions=True): the result (or exception) of
\* the i-th awaitable goes to place i of the list, whenever it completes.
\* completion lists the awaitables in the order they complete in.
Gather(outcomes, completion) ==
    [i \in 1 .. Len(outcomes) |->
        IF \E n \in 1 .. Len(completion) : completion[n] = i
        THEN outcomes[i]
        ELSE [pending |-> TRUE]]

\* validate_response(response_content, query, metadata), called when the
\* clock reads now
ValidateResponse(response_content, query, metadata, now, completion) ==
    LET outcomes ==
            << CheckProhibitedLanguage(response_content, now),
               ValidateCitations(response_content, now),
               AssessAdviceLevel(response_content, query, now),
               CheckJurisdictionConsistency(response_content, now),
               ValidateCurrencyOfInformation(response_content, metadata, now),
               AssessClarityAndAccessibility(response_content, now) >>
        checks == Gather(outcomes, completion)
        checks_performed == SelectSeq(checks, IsComplianceCheck)
        W[i \in 0 .. Len(checks_performed)] ==
            IF i = 0 THEN <<>>
            ELSE IF ~checks_performed[i].passed
                 THEN Append(W[i - 1],
                        [check |-> checks_performed[i].check_id,
                         description |-> checks_performed[i].description,
                         details |-> checks_performed[i].details,
                         risk_level |-> checks_performed[i].risk_level.value])
                 ELSE W[i - 1]
        warnings == W[Len(checks_performed)]
        M[i \in 0 .. Len(checks_performed)] ==
            IF i = 0 THEN LOW_RISK
            ELSE UpdateRiskLevel(M[i - 1], checks_performed[i])
        max_risk_level == M[Len(checks_performed)]
        legal_domain == ClassifyLegalDomain(query, response_content)
    IN [overall_compliance |-> max_risk_level,
        checks_performed |-> checks_performed,
        warnings |-> warnings,
        required_disclaimers |->
            GetRequiredDisclaimers(legal_domain, max_risk_level),
        citation_accuracy |-> <<>>,
        recommended_improvements |-> <<>>,
        confidence_score |-> CalculateConfidenceScore(checks_performed, warnings)]

(***************************************************************************)
(* LegalResponseEnhancer                                                   *)
(***************************************************************************)
\* [d for d in disclaimers if d["placement"] == placement]
WithPlacement(disclaimers, placement) ==
    LET F[i \in 0 .. Len(disclaimers)] ==
            IF i = 0 THEN <<>>
            ELSE IF disclaimers[i].placement = placement
                 THEN Append(F[i - 1], disclaimers[i])
                 ELSE F[i - 1]
    IN F[Len(disclaimers)]

\* "\n\n".join([f"{mark} {d['content']}" for d in ds])
DisclaimerText(ds, mark) ==
    JoinWith([i \in 1 .. Len(ds) |-> <<mark, ds[i].content>>], ParagraphBreak)

\* Mutant: the footer branch keeps the disclaimers and loses the response.
AddFooter_DropsResponse(enhanced_response, disclaimers) ==
    LET footer_disclaimers == WithPlacement(disclaimers, "footer")
    IN IF footer_disclaimers # <<>>
       THEN DisclaimerText(footer_disclaimers, "(i) ")
       ELSE enhanced_response

\* the footer branch of enhance_response
AddFooter(enhanced_response, disclaimers) ==
    LET footer_disclaimers == WithPlacement(disclaimers, "footer")
    IN IF footer_disclaimers # <<>>
       THEN enhanced_response \o <<ParagraphBreak>>
            \o DisclaimerText(footer_disclaimers, "(i) ")
       ELSE enhanced_response

\* the header branch of enhance_response
AddHeader(enhanced_response, disclaimers) ==
    LET header_disclaimers == WithPlacement(disclaimers, "header")
    IN IF header_disclaimers # <<>>
       THEN DisclaimerText(header_disclaimers, "(!) ")
            \o <<ParagraphBreak>> \o enhanced_response
       ELSE enhanced_response

\* the inline branch of enhance_response: after the first paragraph, and
\* only when the text has more than one paragraph
AddInline(enhanced_response, disclaimers) ==
    LET inline_disclaimers == WithPlacement(disclaimers, "inline")
        paragraphs == SplitOn(enhanced_response, ParagraphBreak)
    IN IF inline_disclaimers # <<>> /\ Len(paragraphs) > 1
       THEN JoinWith(InsertAt(paragraphs, 1,
                              DisclaimerText(inline_disclaimers, "(note) ")),
                     ParagraphBreak)
       ELSE enhanced_response

\* the compliance indicator: compliance_level is the Enum member that
\* validate_response stored, the list it is looked up in holds strings
AddComplianceNote(enhanced_response, validation_results) ==
    IF validation_results.overall_compliance
           \in {Str("high_risk"), Str("professional_advice_required")}
    THEN enhanced_response
         \o <<ParagraphBreak, "(?) Response Confidence: ",
              ToString(validation_results.confidence_score),
              "% | Professional legal advice recommended">>
    ELSE enhanced_response

\* enhance_response(original_response, query, validation_results)
EnhanceResponse(original_response, query, validation_results) ==
    LET disclaimers == validation_results.required_disclaimers
    IN AddComplianceNote(
           AddFooter(AddInline(AddHeader(original_response, disclaimers),
                               disclaimers),
                     disclaimers),
           validation_results)

(***************************************************************************)
(* Actions of a request: validate, validate again, enhance                 *)
(***************************************************************************)
\* orders in which the six checks of one validate_response may complete:
\* the order they were issued in, and its reverse
CompletionOrders == {<<1, 2, 3, 4, 5, 6>>, <<6, 5, 4, 3, 2, 1>>}

\* the clock readings of a second call: the same reading (a frozen clock),
\* a later time of the same day, the next day
LaterNows(now) ==
    { now,
      [now EXCEPT !.tick = now.tick + 1],
      [now EXCEPT !.day = now.day + 1, !.tick = 0] }

\* validate_legal_response(response_content, query, metadata)
Validate ==
    /\ vcall = NoCall
    /\ \E content \in Texts, query \in Queries, metadata \in Metadatas,
          completion \in CompletionOrders :
          vcall' = [pc |-> "validated", content |-> content, query |-> query,
                    metadata |-> metadata, now |-> FirstNow,
                    result |-> ValidateResponse(content, query, metadata,
                                                FirstNow, completion)]
    /\ UNCHANGED searchVars
    /\ UNCHANGED provisionVars

\* a second validate_legal_response on the same arguments
Revalidate ==
    /\ vcall.pc = "validated"
    /\ \E now2 \in LaterNows(vcall.now), completion \in CompletionOrders :
          vcall' = [pc |-> "revalidated", content |-> vcall.content,
                    query |-> vcall.query, metadata |-> vcall.metadata,
                    now |-> vcall.now, result |-> vcall.result,
                    now2 |-> now2,
                    again |-> ValidateResponse(vcall.content, vcall.query,
                                               vcall.metadata, now2,
                                               completion)]
    /\ UNCHANGED searchVars
    /\ UNCHANGED provisionVars

\* enhance_legal_response(original_response, query, validation_results)
Enhance ==
    /\ vcall.pc = "validated"
    /\ vcall' = [pc |-> "enhanced", content |-> vcall.content,
                 query |-> vcall.query, result |-> vcall.result,
                 enhanced |-> EnhanceResponse(vcall.content, vcall.query,
                                              vcall.result)]
    /\ UNCHANGED searchVars
    /\ UNCHANGED provisionVars

\* the request is answered
ValidateReturn ==
    /\ vcall.pc \in {"validated", "revalidated", "enhanced"}
    /\ vcall' = NoCall
    /\ UNCHANGED searchVars
    /\ UNCHANGED provisionVars

\* the validator and the enhancer hold configuration only; the engine is
\* as constructed
EngineIdle ==
    /\ corpus = "uninit"
    /\ pcExists = FALSE /\ pcVectors = {}
    /\ openai_client = "None" /\ pinecone_client = "None" /\ index = "None"
    /\ is_initialized = FALSE
    /\ fallback_vectorizer = "None" /\ fallback_matrix = "None"
    /\ top_k = DefaultTopK /\ rebuild = NoCall
    /\ call = NoCall

ComplianceInit ==
    EngineIdle /\ vcall = NoCall /\ lookup = NoCall /\ LiteAsConstructed

ComplianceNext == Validate \/ Revalidate \/ Enhance \/ ValidateReturn

SpecCompliance == ComplianceInit /\ [][ComplianceNext]_vars

(***************************************************************************)
(* Claims about validate_response and enhance_response                     *)
(***************************************************************************)
\* a validation result is at hand
HasResult == vcall.pc \in {"validated", "revalidated", "enhanced"}

\* the place of a level in low < medium < high < professional advice
RiskRank(level) ==
    CASE level.value = "low_risk" -> 1
      [] level.value = "medium_risk" -> 2
      [] level.value = "high_risk" -> 3
      [] level.value = "professional_advice_required" -> 4

\* C5: overall_compliance is the maximum risk_level among the checks of
\* checks_performed: no check ranks above it and one check has it.
C5_OverallIsMaxRisk ==
    HasResult =>
        LET cs == vcall.result.checks_performed
            overall == vcall.result.overall_compliance
        IN /\ \A i \in 1 .. Len(cs) :
                  RiskRank(cs[i].risk_level) <= RiskRank(overall)
           /\ \E i \in 1 .. Len(cs) : cs[i].risk_level = overall

\* a check needing professional advice is followed by a medium-risk check
C5_Witness ==
    /\ vcall.pc = "validated"
    /\ vcall.result.overall_compliance = PROFESSIONAL_ADVICE_REQUIRED
    /\ LET cs == vcall.result.checks_performed
       IN \E i, j \in 1 .. Len(cs) :
              /\ i < j
              /\ cs[i].risk_level = PROFESSIONAL_ADVICE_REQUIRED
              /\ cs[j].risk_level = MEDIUM_RISK

\* the text holds the phrase at position i whatever the case of its letters
MentionsAt(content, phrase, i) ==
    /\ i + Len(phrase) - 1 <= Len(content)
    /\ \A k \in 1 .. Len(phrase) : Lower(content[i + k - 1]) = phrase[k]

\* C8: a text holding a denylist phrase in any letter case is rated
\* professional_advice_required and fails the prohibited_language check;
\* for any other text that check passes with low_risk.
C8_ProhibitedLanguage ==
    LET HasProhibitedPhrase(content) ==
            \E n \in 1 .. Len(prohibited_phrases), i \in 1 .. Len(content) :
                MentionsAt(content, prohibited_phrases[n], i)
    IN
        HasResult =>
            LET cs == vcall.result.checks_performed
            IN /\ \E i \in 1 .. Len(cs) : cs[i].check_id = "prohibited_language"
               /\ \A i \in 1 .. Len(cs) :
                      cs[i].check_id = "prohibited_language" =>
                          IF HasProhibitedPhrase(vcall.content)
                          THEN /\ ~cs[i].passed
                               /\ vcall.result.overall_compliance
                                      = PROFESSIONAL_ADVICE_REQUIRED
                          ELSE /\ cs[i].passed
                               /\ cs[i].risk_level = LOW_RISK

\* a denylist phrase written in capitals was found
C8_Witness ==
    /\ vcall.pc = "validated"
    /\ Contains(vcall.content, <<"SURE", " ", "THING">>)
    /\ ~Contains(vcall.content, <<"you", " ", "should", " ", "sue">>)
    /\ vcall.result.overall_compliance = PROFESSIONAL_ADVICE_REQUIRED
    /\ ~vcall.result.checks_performed[1].passed

\* C6 (as stated): the enhanced response contains the original text as one
\* contiguous substring, whatever disclaimers are required and however
\* many paragraphs the text has.
C6_ContainsWholeText ==
    vcall.pc = "enhanced" => Contains(vcall.enhanced, vcall.content)

\* C6 (amended): the enhanced response contains the original text as one
\* contiguous substring unless an inline disclaimer is required and the
\* text has a paragraph break; then the inline disclaimers stand at the
\* first paragraph break, and the response contains the first paragraph
\* and, after the disclaimers, the rest of the text, each contiguous.
C6_ContainsTextAroundInline ==
    LET \* an inline disclaimer is required
        InlineRequired(result) ==
            \E i \in 1 .. Len(result.required_disclaimers) :
                result.required_disclaimers[i].placement = "inline"
    IN
        vcall.pc = "enhanced" =>
            LET paragraphs == SplitOn(vcall.content, ParagraphBreak)
                first == paragraphs[1]
                rest == JoinWith(Tail(paragraphs), ParagraphBreak)
                out == vcall.enhanced
            IN IF InlineRequired(vcall.result) /\ Len(paragraphs) > 1
               THEN \E i \in 1 .. (Len(out) + 1), j \in 1 .. (Len(out) + 1) :
                        /\ i + Len(first) + 1 <= Len(out)
                        /\ j + Len(rest) - 1 <= Len(out)
                        /\ SubSeq(out, i, i + Len(first) - 1) = first
                        /\ out[i + Len(first)] = ParagraphBreak
                        /\ out[i + Len(first) + 1] = "(note) "
                        /\ j > i + Len(first) + 1
                        /\ out[j - 1] = ParagraphBreak
                        /\ SubSeq(out, j, j + Len(rest) - 1) = rest
               ELSE Contains(out, vcall.content)

\* a text between a header and a footer disclaimer
C6_Witness ==
    /\ vcall.pc = "enhanced"
    /\ Len(vcall.content) > 0
    /\ \E i, j \in 1 .. Len(vcall.result.required_disclaimers) :
          /\ vcall.result.required_disclaimers[i].placement = "header"
          /\ vcall.result.required_disclaimers[j].placement = "footer"
    /\ Contains(vcall.enhanced, vcall.content)
    /\ Len(vcall.enhanced) > Len(vcall.content) + 4

\* C7 (as stated): two calls on identical arguments with the clock's year
\* and date held fixed yield identical results, field for field, every
\* ComplianceCheck included.
C7_IdenticalResults ==
    LET \* both calls read the same calendar date
        SameDate == vcall.now2.year = vcall.now.year /\ vcall.now2.day = vcall.now.day
    IN
        (vcall.pc = "revalidated" /\ SameDate) => vcall.again = vcall.result

\* the whole days between when_scraped and a clock reading
WholeDays(metadata, now) ==
    IF now.tick >= metadata.when_scraped.tick
    THEN now.day - metadata.when_scraped.day
    ELSE now.day - metadata.when_scraped.day - 1

\* C7 (amended): two calls on identical arguments on the same date yield
\* results identical in every field but the timestamp of each
\* ComplianceCheck, which is the clock reading of its own call, provided
\* metadata's when_scraped is as many whole days old at both calls.
C7_IdenticalButTimestamps ==
    LET \* both calls read the same calendar date
        SameDate == vcall.now2.year = vcall.now.year /\ vcall.now2.day = vcall.now.day
        \* the result with the timestamp of every check blanked
        WithoutTimestamps(result) ==
            [result EXCEPT !.checks_performed =
                [i \in 1 .. Len(result.checks_performed) |->
                    [result.checks_performed[i] EXCEPT !.timestamp = "-"]]]
    IN
        (/\ vcall.pc = "revalidated"
         /\ SameDate
         /\ WholeDays(vcall.metadata, vcall.now2) = WholeDays(vcall.metadata, vcall.now))
        => /\ WithoutTimestamps(vcall.again) = WithoutTimestamps(vcall.result)
           /\ \A i \in 1 .. Len(vcall.again.checks_performed) :
                  /\ vcall.again.checks_performed[i].timestamp = vcall.now2
                  /\ vcall.result.checks_performed[i].timestamp = vcall.now

\* a second call later on the same day, on a dated source: equal but for
\* the timestamps
C7_Witness ==
    LET \* both calls read the same calendar date
        SameDate == vcall.now2.year = vcall.now.year /\ vcall.now2.day = vcall.now.day
    IN
        /\ vcall.pc = "revalidated"
        /\ SameDate
        /\ vcall.now2.tick > vcall.now.tick
        /\ vcall.metadata.kind = "dict" /\ vcall.metadata.parses
        /\ WholeDays(vcall.metadata, vcall.now2) = WholeDays(vcall.metadata, vcall.now)
        /\ vcall.again # vcall.result
        /\ Len(vcall.result.warnings) > 0

\* C13 (as stated): confidence_score equals passed / performed minus the
\* penalties of the failed checks, clamped to [0, 1].
C13_ExactConfidence ==
    LET \* n times the claimed score in hundredths, before clamping: 100 times the
        \* passed checks of the result minus n times the penalties of its failed
        \* checks (low 5, medium 15, high 25, professional_advice_required 40)
        ClaimedScoreTimesN(result) ==
            LET cp == result.checks_performed
                n == Len(cp)
                passed == Cardinality({i \in 1 .. n : cp[i].passed})
                Penalty(level) == CASE level = LOW_RISK -> 5
                                    [] level = MEDIUM_RISK -> 15
                                    [] level = HIGH_RISK -> 25
                                    [] level = PROFESSIONAL_ADVICE_REQUIRED -> 40
                Sum[i \in 0 .. n] ==
                    IF i = 0 THEN 0
                    ELSE Sum[i - 1] + (IF cp[i].passed THEN 0
                                       ELSE Penalty(cp[i].risk_level))
                exact == 100 * passed - n * Sum[n]
            IN IF exact < 0 THEN 0 ELSE IF exact > 100 * n THEN 100 * n ELSE exact
    IN
        HasResult =>
            /\ vcall.result.confidence_score * Len(vcall.result.checks_performed)
                  = ClaimedScoreTimesN(vcall.result)
            /\ vcall.result.confidence_score \in 0 .. 100

\* C13 (amended): confidence_score is that value rounded to two decimal
\* places, and lies in [0, 1].
C13_RoundedConfidence ==
    LET \* n times the claimed score in hundredths, before clamping: 100 times the
        \* passed checks of the result minus n times the penalties of its failed
        \* checks (low 5, medium 15, high 25, professional_advice_required 40)
        ClaimedScoreTimesN(result) ==
            LET cp == result.checks_performed
                n == Len(cp)
                passed == Cardinality({i \in 1 .. n : cp[i].passed})
                Penalty(level) == CASE level = LOW_RISK -> 5
                                    [] level = MEDIUM_RISK -> 15
                                    [] level = HIGH_RISK -> 25
                                    [] level = PROFESSIONAL_ADVICE_REQUIRED -> 40
                Sum[i \in 0 .. n] ==
                    IF i = 0 THEN 0
                    ELSE Sum[i - 1] + (IF cp[i].passed THEN 0
                                       ELSE Penalty(cp[i].risk_level))
                exact == 100 * passed - n * Sum[n]
            IN IF exact < 0 THEN 0 ELSE IF exact > 100 * n THEN 100 * n ELSE exact
    IN
        HasResult =>
            LET n == Len(vcall.result.checks_performed)
                diff == vcall.result.confidence_score * n
                            - ClaimedScoreTimesN(vcall.result)
            IN /\ 2 * diff <= n /\ 2 * diff >= -n
               /\ vcall.result.confidence_score \in 0 .. 100

\* five of six checks passed and one failed at medium risk: 0.8333 - 0.15
\* is reported as 0.68
C13_Witness ==
    /\ HasResult
    /\ Len(vcall.result.checks_performed) = 6
    /\ Len(vcall.result.warnings) = 1
    /\ vcall.result.warnings[1].risk_level = "medium_risk"
    /\ vcall.result.confidence_score = 68

\* C14: required_disclaimers is exactly the configured disclaimers that
\* apply to the classified domain or to general_legal and whose severity is
\* at most overall_compliance, in configured order.
C14_RequiredDisclaimers ==
    HasResult =>
        LET domain == ClassifyLegalDomain(vcall.query, vcall.content)
            overall == vcall.result.overall_compliance
            configured == [i \in 1 .. Len(required_disclaimers) |->
                              required_disclaimers[i].content]
            due == {required_disclaimers[i].content :
                       i \in {j \in 1 .. Len(required_disclaimers) :
                                 /\ {domain, "general_legal"}
                                       \cap required_disclaimers[j].applies_to_domains
                                    # {}
                                 /\ RiskRank(required_disclaimers[j].severity)
                                       <= RiskRank(overall)}}
            listed == [k \in 1 .. Len(vcall.result.required_disclaimers) |->
                          vcall.result.required_disclaimers[k].content]
        IN listed = Filtered(configured, due)

\* a medium-risk answer on immigration or family law: the general disclaimer
\* is required, the high-severity disclaimer of the domain is not
C14_Witness ==
    /\ HasResult
    /\ vcall.result.overall_compliance = MEDIUM_RISK
    /\ ClassifyLegalDomain(vcall.query, vcall.content)
          \in {"immigration", "family_law"}
    /\ Len(vcall.result.required_disclaimers) = 1
    /\ vcall.result.required_disclaimers[1].placement = "footer"

\* C15: enhance places every required disclaimer in its output: header
\* disclaimers before the text, inline disclaimers after the first paragraph
\* break of the text if it has one and otherwise after the text, footer
\* disclaimers after the text; within a placement the configured order is
\* kept and no disclaimer is dropped.
C15_EveryDisclaimerPlaced ==
    vcall.pc = "enhanced" =>
        LET out == vcall.enhanced
            text == vcall.content
            ds == vcall.result.required_disclaimers
            paragraphs == SplitOn(text, ParagraphBreak)
            first == paragraphs[1]
            rest == SubSeq(text, Len(first) + 2, Len(text))
            Placed(k) == \E i \in 1 .. Len(out) : out[i] = ds[k].content
            Pos(k) == CHOOSE i \in 1 .. Len(out) : out[i] = ds[k].content
            Above(k) == SubSeq(out, 1, Pos(k) - 1)
            Below(k) == SubSeq(out, Pos(k) + 1, Len(out))
        IN /\ \A k \in 1 .. Len(ds) : Placed(k)
           /\ \A k \in 1 .. Len(ds) :
                 CASE ds[k].placement = "header" -> Contains(Below(k), first)
                   [] ds[k].placement = "footer" ->
                        Contains(Above(k), IF Len(paragraphs) > 1 THEN rest
                                           ELSE text)
                   [] ds[k].placement = "inline" ->
                        IF Len(paragraphs) > 1
                        THEN Contains(Above(k), first) /\ Contains(Below(k), rest)
                        ELSE Contains(Above(k), text)
           /\ \A k, l \in 1 .. Len(ds) :
                 (k < l /\ ds[k].placement = ds[l].placement) => Pos(k) < Pos(l)

\* a one-paragraph answer that requires an inline disclaimer was enhanced
C15_InlineDropped ==
    LET \* an inline disclaimer is required
        InlineRequired(result) ==
            \E i \in 1 .. Len(result.required_disclaimers) :
                result.required_disclaimers[i].placement = "inline"
    IN
        /\ vcall.pc = "enhanced"
        /\ InlineRequired(vcall.result)
        /\ Len(SplitOn(vcall.content, ParagraphBreak)) = 1
        /\ \A i \in 1 .. Len(vcall.enhanced) :
              \A k \in 1 .. Len(vcall.result.required_disclaimers) :
                  vcall.result.required_disclaimers[k].placement = "inline"
                  => vcall.enhanced[i] # vcall.result.required_disclaimers[k].content

\* C16: when validate_response reports high_risk or
\* professional_advice_required, enhance applied to that result appends the
\* trailing confidence line; for low_risk or medium_risk it does not.
C16_ConfidenceLineWhenRisky ==
    vcall.pc = "enhanced" =>
        LET risky == RiskRank(vcall.result.overall_compliance) >= 3
            appended ==
                \E i \in 1 .. Len(vcall.enhanced) :
                    vcall.enhanced[i]
                        = "% | Professional legal advice recommended"
        IN risky <=> appended

\* an answer rated professional_advice_required was enhanced and its last
\* piece is a footer disclaimer, not the confidence line
C16_NoConfidenceLine ==
    /\ vcall.pc = "enhanced"
    /\ vcall.result.overall_compliance = PROFESSIONAL_ADVICE_REQUIRED
    /\ vcall.enhanced[Len(vcall.enhanced)]
          = "This information is for educational purposes only ..."

\* C17: checks_performed lists the six checks in the order
\* prohibited_language, citation_validation, advice_level_assessment,
\* jurisdiction_consistency, information_currency, clarity_accessibility,
\* whatever order the checks complete in.
C17_SixChecksInFixedOrder ==
    LET \* the check_ids of checks_performed, in list order
        CheckIds(result) ==
            [i \in 1 .. Len(result.checks_performed) |->
                result.checks_performed[i].check_id]
    IN
        HasResult =>
            CheckIds(vcall.result)
                = <<"prohibited_language", "citation_validation",
                    "advice_level_assessment", "jurisdiction_consistency",
                    "information_currency", "clarity_accessibility">>

\* validate_response without a query returns five checks: the advice check
\* raised and is not listed
C17_FiveChecks ==
    LET \* the check_ids of checks_performed, in list order
        CheckIds(result) ==
            [i \in 1 .. Len(result.checks_performed) |->
                result.checks_performed[i].check_id]
    IN
        /\ vcall.pc = "validated"
        /\ vcall.query.kind = "None"
        /\ CheckIds(vcall.result)
              = <<"prohibited_language", "citation_validation",
                  "jurisdiction_consistency", "information_currency",
                  "clarity_accessibility">>

\* C18: a check that raised during validate_response is in checks_performed,
\* recorded as failed, next to the checks that did not raise.
C18_RaisedCheckRecordedFailed ==
    (/\ vcall.pc = "validated"
     /\ ~IsComplianceCheck(AssessAdviceLevel(vcall.content, vcall.query,
                                             vcall.now)))
        => /\ Len(vcall.result.checks_performed) = 6
           /\ \E i \in 1 .. Len(vcall.result.checks_performed) :
                  /\ vcall.result.checks_performed[i].check_id
                        = "advice_level_assessment"
                  /\ ~vcall.result.checks_performed[i].passed

\* the advice check raised, validate_response returned, and the result
\* carries no trace of the check: every listed check passed and the
\* response counts as low risk
C18_RaisedCheckDropped ==
    /\ vcall.pc = "validated"
    /\ ~IsComplianceCheck(AssessAdviceLevel(vcall.content, vcall.query,
                                            vcall.now))
    /\ \A i \in 1 .. Len(vcall.result.checks_performed) :
           /\ vcall.result.checks_performed[i].check_id
                 # "advice_level_assessment"
           /\ vcall.result.checks_performed[i].passed
    /\ vcall.result.overall_compliance = LOW_RISK

\* C24: the currency check fails with medium_risk when the text mentions a
\* year more than 10 years before the current year or the metadata's
\* when_scraped is more than 365 days old, and passes with low_risk exactly
\* when neither holds.
C24_StaleYearOrSourceFlagged ==
    vcall.pc = "validated" =>
        LET cs == vcall.result.checks_performed
            old_year == /\ vcall.now.year - 1990 > 10
                        /\ \E k \in 1 .. Len(vcall.content) :
                               vcall.content[k] = "1990"
            old_source == /\ vcall.metadata.kind = "dict"
                          /\ vcall.metadata.parses
                          /\ WholeDays(vcall.metadata, vcall.now) > 365
        IN /\ \E i \in 1 .. Len(cs) : cs[i].check_id = "information_currency"
           /\ \A i \in 1 .. Len(cs) :
                 cs[i].check_id = "information_currency" =>
                     IF old_year \/ old_source
                     THEN ~cs[i].passed /\ cs[i].risk_level = MEDIUM_RISK
                     ELSE cs[i].passed /\ cs[i].risk_level = LOW_RISK

\* a text naming the year 1990, checked in 2024 without metadata: the
\* currency check passes
C24_OldYearPasses ==
    /\ vcall.pc = "validated"
    /\ vcall.metadata = NoMetadata
    /\ vcall.now.year = 2024
    /\ \E k \in 1 .. Len(vcall.content) : vcall.content[k] = "1990"
    /\ \E i \in 1 .. Len(vcall.result.checks_performed) :
           /\ vcall.result.checks_performed[i].check_id = "information_currency"
           /\ vcall.result.checks_performed[i].passed
           /\ vcall.result.checks_performed[i].risk_level = LOW_RISK

\* C26: the jurisdiction check fails, with medium_risk, only when the text
\* names federal together with more than one state or territory; otherwise
\* it passes with low_risk. A text names a jurisdiction when one of its
\* keywords stands in the text as words of their own.
C26_FailsOnlyOnFederalWithStates ==
    vcall.pc = "validated" =>
        LET cs == vcall.result.checks_performed
            text == LowerText(vcall.content)
            Sep(p) == p \in {" ", ".", ParagraphBreak}
            StandsAt(k, i) ==
                /\ i + Len(k) - 1 <= Len(text)
                /\ \A n \in 1 .. Len(k) : text[i + n - 1] = k[n]
                /\ i = 1 \/ Sep(text[i - 1])
                /\ i + Len(k) - 1 = Len(text) \/ Sep(text[i + Len(k)])
            named == {j \in 1 .. Len(jurisdiction_keywords) :
                         \E k \in jurisdiction_keywords[j].keywords :
                             \E i \in 1 .. Len(text) : StandsAt(k, i)}
            states == {j \in named :
                          jurisdiction_keywords[j].jurisdiction # "federal"}
            federal_with_states ==
                /\ states # named
                /\ Cardinality(states) > 1
        IN \A i \in 1 .. Len(cs) :
               cs[i].check_id = "jurisdiction_consistency" =>
                   /\ ~cs[i].passed =>
                         /\ federal_with_states
                         /\ cs[i].risk_level = MEDIUM_RISK
                   /\ ~federal_with_states =>
                         /\ cs[i].passed
                         /\ cs[i].risk_level = LOW_RISK

\* "federal was a task." names the federal jurisdiction alone and fails the
\* check: "wa" and "tas" are found inside "was" and "task"
C26_SingleJurisdictionFails ==
    /\ vcall.pc = "validated"
    /\ vcall.content
          = <<"federal", " ", "wa", "s", " ", "a", " ", "tas", "k", ".", " ">>
    /\ \E i \in 1 .. Len(vcall.result.checks_performed) :
           /\ vcall.result.checks_performed[i].check_id
                 = "jurisdiction_consistency"
           /\ ~vcall.result.checks_performed[i].passed
           /\ vcall.result.checks_performed[i].details.mentioned
                 = <<"federal", "wa", "tas">>

\* C25: with a the number of directive phrases and b the number of
\* informational phrases that occur in the response, the advice-level check
\* gives professional_advice_required (failed) when a > b and the query asks
\* for personal advice, else high_risk (failed) when a > 3, else medium_risk
\* (passed) when a > 1, else low_risk (passed).
C25_AdviceDecisionTable ==
    (vcall.pc = "validated" /\ vcall.query.kind = "str") =>
        LET cs == vcall.result.checks_performed
            text == LowerText(vcall.content)
            a == Cardinality({n \in 1 .. Len(advice_indicators) :
                                 Contains(text, advice_indicators[n])})
            b == Cardinality({n \in 1 .. Len(information_indicators) :
                                 Contains(text, information_indicators[n])})
            personal == \E n \in 1 .. Len(specific_query_indicators) :
                            Contains(LowerText(vcall.query.text),
                                     specific_query_indicators[n])
        IN \E i \in 1 .. Len(cs) :
              /\ cs[i].check_id = "advice_level_assessment"
              /\ IF a > b /\ personal
                 THEN /\ cs[i].risk_level = PROFESSIONAL_ADVICE_REQUIRED
                      /\ ~cs[i].passed
                 ELSE IF a > 3
                 THEN cs[i].risk_level = HIGH_RISK /\ ~cs[i].passed
                 ELSE IF a > 1
                 THEN cs[i].risk_level = MEDIUM_RISK /\ cs[i].passed
                 ELSE cs[i].risk_level = LOW_RISK /\ cs[i].passed

\* four directive phrases, none informational, and a query for personal
\* advice: the first row of the table wins over the second
C25_Witness ==
    /\ vcall.pc = "validated"
    /\ vcall.query.kind = "str"
    /\ \E i \in 1 .. Len(vcall.result.checks_performed) :
           /\ vcall.result.checks_performed[i].check_id
                 = "advice_level_assessment"
           /\ vcall.result.checks_performed[i].details
                 = [advice |-> 4, information |-> 0, specific_query |-> TRUE]
           /\ vcall.result.checks_performed[i].risk_level
                 = PROFESSIONAL_ADVICE_REQUIRED

\* C29: the citation check passes with low_risk for every response text.
C29_CitationCheckAlwaysPasses ==
    vcall.pc = "validated" =>
        \E i \in 1 .. Len(vcall.result.checks_performed) :
            /\ vcall.result.checks_performed[i].check_id = "citation_validation"
            /\ vcall.result.checks_performed[i].passed
            /\ vcall.result.checks_performed[i].risk_level = LOW_RISK

\* a text with an AustLII address: one citation found, one counted valid
C29_Witness ==
    /\ vcall.pc = "validated"
    /\ \E i \in 1 .. Len(vcall.result.checks_performed) :
           /\ vcall.result.checks_performed[i].check_id = "citation_validation"
           /\ vcall.result.checks_performed[i].details
                 = [valid |-> 1, total |-> 1]
           /\ vcall.result.checks_performed[i].passed

\* C30: required_disclaimers of validate_response is empty if and only if
\* overall_compliance is low_risk, and enhance returns the original text
\* when it is empty.
C30_NoDisclaimersIffLowRisk ==
    HasResult =>
        /\ vcall.result.required_disclaimers = <<>>
              <=> vcall.result.overall_compliance = LOW_RISK
        /\ (vcall.pc = "enhanced" /\ vcall.result.required_disclaimers = <<>>)
              => vcall.enhanced = vcall.content

\* an immigration text of medium risk gets the general footer disclaimer
\* and no other
C30_Witness ==
    /\ vcall.pc = "enhanced"
    /\ ClassifyLegalDomain(vcall.query, vcall.content) = "immigration"
    /\ vcall.result.overall_compliance = MEDIUM_RISK
    /\ Len(vcall.result.required_disclaimers) = 1
    /\ vcall.result.required_disclaimers[1].placement = "footer"
    /\ vcall.enhanced # vcall.content

(***************************************************************************)
(* find_specific_provision of AustralianLegalCorpus and of LegalCorpusLite *)
(* The strings of this part are sequences of characters, so that lower(),  *)
(* split(), replace() and "in" are those of Python.                        *)
(***************************************************************************)
\* s.lower()
StrLower(s) ==
    LET UpperCase ==
        <<"A", "B", "C", "D", "E", "F", "G", "H", "I", "J", "K", "L", "M", "N",
          "O", "P", "Q", "R", "S", "T", "U", "V", "W", "X", "Y", "Z">>
        LowerCase ==
        <<"a", "b", "c", "d", "e", "f", "g", "h", "i", "j", "k", "l", "m", "n",
          "o", "p", "q", "r", "s", "t", "u", "v", "w", "x", "y", "z">>
        LowerChar(c) ==
            IF \E i \in 1 .. 26 : UpperCase[i] = c
            THEN LowerCase[CHOOSE i \in 1 .. 26 : UpperCase[i] = c]
            ELSE c
    IN [i \in 1 .. Len(s) |-> LowerChar(s[i])]

\* s.split(), for a string whose only whitespace is " "
Words(s) ==
    LET NonEmpty(w) == Len(w) > 0
    IN SelectSeq(SplitOn(s, " "), NonEmpty)

\* s.replace(old, new), old not empty
RECURSIVE Replace(_, _, _)
Replace(s, old, new) ==
    IF Len(s) < Len(old) THEN s
    ELSE IF SubSeq(s, 1, Len(old)) = old
         THEN new \o Replace(SubSeq(s, Len(old) + 1, Len(s)), old, new)
         ELSE <<Head(s)>> \o Replace(Tail(s), old, new)

\* an Optional[str] argument
NoneArg == [kind |-> "None"]
StrArg(s) == [kind |-> "str", text |-> s]

\* what a lookup returns: None, or the formatted provision
NotFound == [found |-> FALSE]

\* AustralianLegalCorpus._initialize_fallback: the one-row mock frame
InitializeFallback == <<
    [\* 'Migration Act 1958 (Cth) s 359A'
     citation |->
        <<"M", "i", "g", "r", "a", "t", "i", "o", "n", " ", "A", "c", "t",
          " ", "1", "9", "5", "8", " ", "(", "C", "t", "h", ")", " ", "s",
          " ", "3", "5", "9", "A">>,
     \* 'Information and invitation given in writing by Tribunal...'
     text |->
        <<"I", "n", "f", "o", "r", "m", "a", "t", "i", "o", "n", " ", "a",
          "n", "d", " ", "i", "n", "v", "i", "t", "a", "t", "i", "o", "n",
          " ", "g", "i", "v", "e", "n", " ", "i", "n", " ", "w", "r", "i",
          "t", "i", "n", "g", " ", "b", "y", " ", "T", "r", "i", "b", "u",
          "n", "a", "l", ".", ".", ".">>,
     jurisdiction |->
        <<"C", "o", "m", "m", "o", "n", "w", "e", "a", "l", "t", "h">>] >>

\* a row of the loaded dataset; row i is of jurisdiction DocJurisdiction(i)
DatasetRow(i) ==
    CASE i = 0 ->
            [\* 'Migration Act 1958 (Cth) s 501'
             citation |->
                <<"M", "i", "g", "r", "a", "t", "i", "o", "n", " ", "A", "c", "t",
                  " ", "1", "9", "5", "8", " ", "(", "C", "t", "h", ")", " ", "s",
                  " ", "5", "0", "1">>,
             \* 'Character test.'
             text |->
                <<"C", "h", "a", "r", "a", "c", "t", "e", "r", " ", "t", "e", "s",
                  "t", ".">>,
             jurisdiction |->
                <<"c", "o", "m", "m", "o", "n", "w", "e", "a", "l", "t", "h">>]
      [] i = 1 ->
            [\* 'Crimes Act 1900 (NSW) s 18'
             citation |->
                <<"C", "r", "i", "m", "e", "s", " ", "A", "c", "t", " ", "1", "9",
                  "0", "0", " ", "(", "N", "S", "W", ")", " ", "s", " ", "1", "8">>,
             \* 'Murder. See the Migration Act.'
             text |->
                <<"M", "u", "r", "d", "e", "r", ".", " ", "S", "e", "e", " ", "t",
                  "h", "e", " ", "M", "i", "g", "r", "a", "t", "i", "o", "n", " ",
                  "A", "c", "t", ".">>,
             jurisdiction |->
                <<"n", "e", "w", "_", "s", "o", "u", "t", "h", "_", "w", "a", "l",
                  "e", "s">>]
      [] OTHER ->
            [\* 'Migration Act 1958 (Cth) s 36'
             citation |->
                <<"M", "i", "g", "r", "a", "t", "i", "o", "n", " ", "A", "c", "t",
                  " ", "1", "9", "5", "8", " ", "(", "C", "t", "h", ")", " ", "s",
                  " ", "3", "6">>,
             \* 'Protection visas. See section 5.'
             text |->
                <<"P", "r", "o", "t", "e", "c", "t", "i", "o", "n", " ", "v", "i",
                  "s", "a", "s", ".", " ", "S", "e", "e", " ", "s", "e", "c", "t",
                  "i", "o", "n", " ", "5", ".">>,
             jurisdiction |->
                <<"c", "o", "m", "m", "o", "n", "w", "e", "a", "l", "t", "h">>]

\* corpus_df
CorpusFrame(c) ==
    IF c = "full" THEN [i \in 1 .. NumDocs |-> DatasetRow(i - 1)]
    ELSE IF c = "mock" THEN InitializeFallback
    ELSE <<>>

\* AustralianLegalCorpus._format_provision_result
FormatProvisionResult(row, provision_id) ==
    [found |-> TRUE, id |-> provision_id, provision_text |-> row.text,
     title |-> row.citation, jurisdiction |-> row.jurisdiction,
     source |-> "Australian Legal Corpus"]

\* section_patterns: built from section as given, not lower-cased
SectionPatterns(section) ==
    << <<"s", "e", "c", "t", "i", "o", "n", " ">> \o section,
       <<"s", " ">> \o section,
       <<"s", "e", "c", " ">> \o section,
       section \o <<".">> >>

\* act_patterns: replace() runs before lower()
ActPatterns(act_name) ==
    << StrLower(act_name),
       StrLower(Replace(act_name, <<" ", "a", "c", "t">>, <<>>)),
       StrLower(Replace(act_name, <<" ">>, <<>>)) >>

\* the condition under which the loop of find_specific_provision returns row
RowMatches(row, act_name, section, jurisdiction) ==
    LET text == StrLower(row.text)
        citation == StrLower(row.citation)
        \* any(pattern in text or pattern in citation for pattern in ...)
        AnyPatternIn(patterns) ==
            \E k \in 1 .. Len(patterns) :
                Contains(text, patterns[k]) \/ Contains(citation, patterns[k])
        act_match == AnyPatternIn(ActPatterns(act_name))
        section_match == AnyPatternIn(SectionPatterns(section))
    IN IF jurisdiction.kind = "str" /\ Len(jurisdiction.text) > 0
       THEN LET jurisdiction_match ==
                    Contains(StrLower(row.jurisdiction),
                             StrLower(jurisdiction.text))
            IN act_match /\ section_match /\ jurisdiction_match
       ELSE act_match /\ section_match

\* AustralianLegalCorpus.find_specific_provision on the corpus in state c
FindSpecificProvision(c, act_name, section, jurisdiction) ==
    IF c = "uninit" THEN NotFound
    ELSE LET df == CorpusFrame(c)
             hits == {i \in 1 .. Len(df) :
                         RowMatches(df[i], act_name, section, jurisdiction)}
         IN IF hits = {} THEN NotFound
            ELSE LET i == CHOOSE h \in hits : \A g \in hits : h <= g
                 IN FormatProvisionResult(df[i],
                                          DocId("corpus_specific", i - 1))

\* LegalCorpusLite._create_fallback_data: the id, citation and jurisdiction
\* of each provision
CreateFallbackData == <<
    [id |-> "migration_act_1958_cth_s_359a",
     \* 'Migration Act 1958 (Cth) s 359A'
     citation |->
        <<"M", "i", "g", "r", "a", "t", "i", "o", "n", " ", "A", "c", "t",
          " ", "1", "9", "5", "8", " ", "(", "C", "t", "h", ")", " ", "s",
          " ", "3", "5", "9", "A">>,
     jurisdiction |->
        <<"C", "o", "m", "m", "o", "n", "w", "e", "a", "l", "t", "h">>],
    [id |-> "migration_act_1958_cth_s_501",
     \* 'Migration Act 1958 (Cth) s 501'
     citation |->
        <<"M", "i", "g", "r", "a", "t", "i", "o", "n", " ", "A", "c", "t",
          " ", "1", "9", "5", "8", " ", "(", "C", "t", "h", ")", " ", "s",
          " ", "5", "0", "1">>,
     jurisdiction |->
        <<"C", "o", "m", "m", "o", "n", "w", "e", "a", "l", "t", "h">>],
    [id |-> "fair_work_act_2009_cth_s_382",
     \* 'Fair Work Act 2009 (Cth) s 382'
     citation |->
        <<"F", "a", "i", "r", " ", "W", "o", "r", "k", " ", "A", "c", "t",
          " ", "2", "0", "0", "9", " ", "(", "C", "t", "h", ")", " ", "s",
          " ", "3", "8", "2">>,
     jurisdiction |->
        <<"C", "o", "m", "m", "o", "n", "w", "e", "a", "l", "t", "h">>],
    [id |-> "corporations_act_2001_cth_s_181",
     \* 'Corporations Act 2001 (Cth) s 181'
     citation |->
        <<"C", "o", "r", "p", "o", "r", "a", "t", "i", "o", "n", "s", " ",
          "A", "c", "t", " ", "2", "0", "0", "1", " ", "(", "C", "t", "h",
          ")", " ", "s", " ", "1", "8", "1">>,
     jurisdiction |->
        <<"C", "o", "m", "m", "o", "n", "w", "e", "a", "l", "t", "h">>] >>

\* LegalCorpusLite._format_provision_result
LiteFormatProvisionResult(provision) ==
    [found |-> TRUE, id |-> provision.id, title |-> provision.citation,
     jurisdiction |-> provision.jurisdiction, source |-> "Legal Corpus Lite"]

\* the condition under which the loop of LegalCorpusLite's
\* find_specific_provision returns provision
LiteMatches(provision, act_name, section) ==
    LET act_lower == StrLower(act_name)
        section_lower == StrLower(section)
        citation_lower == StrLower(provision.citation)
        act_words == Words(act_lower)
        act_match ==
            \A k \in 1 .. Len(act_words) :
                Len(act_words[k]) > 2 => Contains(citation_lower, act_words[k])
        section_match ==
            \/ Contains(citation_lower, <<"s", " ">> \o section_lower)
            \/ Contains(citation_lower,
                        <<"s", "e", "c", "t", "i", "o", "n", " ">>
                            \o section_lower)
    IN act_match /\ section_match

\* LegalCorpusLite.find_specific_provision: jurisdiction is not read
LiteFindSpecificProvision(act_name, section, jurisdiction) ==
    LET hits == {i \in 1 .. Len(CreateFallbackData) :
                    LiteMatches(CreateFallbackData[i], act_name, section)}
    IN IF hits = {} THEN NotFound
       ELSE LiteFormatProvisionResult(
                CreateFallbackData[CHOOSE h \in hits : \A g \in hits : h <= g])

(***************************************************************************)
(* Lookups                                                                 *)
(***************************************************************************)
ActNames ==
    { \* 'Migration Act'
      <<"M", "i", "g", "r", "a", "t", "i", "o", "n", " ", "A", "c", "t">>,
      \* 'migration act'
      <<"m", "i", "g", "r", "a", "t", "i", "o", "n", " ", "a", "c", "t">>,
      \* 'Fair Work Act'
      <<"F", "a", "i", "r", " ", "W", "o", "r", "k", " ", "A", "c", "t">> }

Sections ==
    { <<"5", "0", "1">>, <<"5", "0">>, <<"5">>, <<"3", "5", "9", "A">>,
      <<"3", "6">>, <<"9", "9", "9">> }

Jurisdictions ==
    { NoneArg,
      StrArg(<<"C", "o", "m", "m", "o", "n", "w", "e", "a", "l", "t", "h">>),
      StrArg(<<"N", "S", "W">>) }

\* legal_corpus.initialize() (initialize_corpus)
LegalCorpusInitialize ==
    /\ lookup = NoCall
    /\ \E datasetOk \in BOOLEAN : corpus' = CorpusInitialize(corpus, datasetOk)
    /\ UNCHANGED <<pcExists, pcVectors, openai_client, pinecone_client, index,
                   is_initialized, fallback_vectorizer, fallback_matrix,
                   top_k, call, vcall, lookup, legal_corpus_lite, rebuild>>

\* legal_corpus_lite.initialize()
LiteInitialize ==
    /\ lookup = NoCall
    /\ legal_corpus_lite' = [legal_corpus_lite EXCEPT !.is_initialized = TRUE]
    /\ UNCHANGED <<searchVars, vcall, lookup>>

\* legal_corpus.find_specific_legal_provision(act_name, section, jurisdiction)
FindSpecificLegalProvision ==
    /\ lookup = NoCall
    /\ \E act_name \in ActNames, section \in Sections,
          jurisdiction \in Jurisdictions :
          lookup' = [pc |-> "returned", module |-> "legal_corpus",
                     act_name |-> act_name, section |-> section,
                     jurisdiction |-> jurisdiction,
                     result |-> FindSpecificProvision(corpus, act_name,
                                                      section, jurisdiction)]
    /\ UNCHANGED <<searchVars, vcall, legal_corpus_lite>>

\* legal_corpus_lite.find_specific_legal_provision(act_name, section,
\* jurisdiction)
LiteFindSpecificLegalProvision ==
    /\ lookup = NoCall
    /\ \E act_name \in ActNames, section \in Sections,
          jurisdiction \in Jurisdictions :
          lookup' = [pc |-> "returned", module |-> "legal_corpus_lite",
                     act_name |-> act_name, section |-> section,
                     jurisdiction |-> jurisdiction,
                     result |-> LiteFindSpecificProvision(act_name, section,
                                                          jurisdiction)]
    /\ UNCHANGED <<searchVars, vcall, legal_corpus_lite>>

\* the caller has the answer
LookupReturn ==
    /\ lookup.pc = "returned"
    /\ lookup' = NoCall
    /\ UNCHANGED <<searchVars, vcall, legal_corpus_lite>>

ProvisionInit ==
    EngineIdle /\ vcall = NoCall /\ lookup = NoCall /\ LiteAsConstructed

ProvisionNext ==
    \/ LegalCorpusInitialize
    \/ LiteInitialize
    \/ FindSpecificLegalProvision
    \/ LiteFindSpecificLegalProvision
    \/ LookupReturn

SpecProvision == ProvisionInit /\ [][ProvisionNext]_vars

(***************************************************************************)
(* Claims about find_specific_provision                                    *)
(***************************************************************************)
\* the section number a citation ends with: what follows its last " s "
SectionOf(citation) ==
    LET marks == {i \in 1 .. (Len(citation) - 2) :
                     SubSeq(citation, i, i + 2) = <<" ", "s", " ">>}
    IN IF marks = {} THEN <<>>
       ELSE LET m == CHOOSE h \in marks : \A g \in marks : g <= h
            IN SubSeq(citation, m + 3, Len(citation))

\* the citation is of the named act: it begins with the act's name
NamesAct(citation, act_name) ==
    /\ Len(act_name) <= Len(citation)
    /\ SubSeq(StrLower(citation), 1, Len(act_name)) = StrLower(act_name)

\* C9: find_specific_provision returns a document only when that document
\* is a provision of the named act with exactly the requested section number
\* and, when a jurisdiction is given, of that jurisdiction; it never returns
\* a document for a different section number.
C9_ExactProvisionOnly ==
    (lookup.pc = "returned" /\ lookup.result.found) =>
        /\ NamesAct(lookup.result.title, lookup.act_name)
        /\ SectionOf(StrLower(lookup.result.title)) = StrLower(lookup.section)
        /\ lookup.jurisdiction.kind = "str" =>
               Contains(StrLower(lookup.result.jurisdiction),
                        StrLower(lookup.jurisdiction.text))

\* a lookup for an absent section returned the document of another section
C9_NearMatch ==
    /\ lookup.pc = "returned" /\ lookup.result.found
    /\ NamesAct(lookup.result.title, lookup.act_name)
    /\ SectionOf(StrLower(lookup.result.title)) # StrLower(lookup.section)

=============================================================================
